---- MODULE Spec2Model ----
(***************************************************************************)
(* A model of the daily AI news podcast pipeline: article curation (Pass A *)
(* relevance filter, deduplication, Pass B ranking), sentence-aware text   *)
(* chunking, sequential speech synthesis, feed fetching and the e-mail     *)
(* pipeline that strings the stages together.                              *)
(*                                                                         *)
(* Each component has its own variables and its own specification; a       *)
(* specification leaves the variables of the other components untouched.   *)
(***************************************************************************)
EXTENDS Integers, Sequences, FiniteSets, TLC

VARIABLES
    \* ---- article curator (selectTopArticles) ----
    articles,        \* the Article[] handed to selectTopArticles
    apiKey,          \* process.env.OPENAI_API_KEY is set
    maxCount,        \* opts.maxCount
    curPc,           \* position inside selectTopArticles / filterAIArticles
    batchIndex,      \* the loop variable i of the chunked Pass A loop
    allSelectedIds,  \* ids accumulated across Pass A batches
    oracleLog,       \* every oracle call issued / completed, in order
    aiArticles,      \* result of filterAIArticles
    uniqueArticles,  \* result of deduplicateArticles
    selectedIds,     \* result of selectArticlesWithAI
    curError,        \* the error selectTopArticles rejected with ("" = none)
    \* ---- chunkText ----
    ckText,          \* the text argument
    ckMax,           \* the maxLength argument
    ckPc,            \* position inside chunkText
    currentIndex,    \* the cursor of the loop
    chunks,          \* the chunks pushed so far
    cuts,            \* history: the (start, end) of every slice taken
    \* ---- sendDailyPodcastEmail ----
    plVariant,       \* "memory" (in-memory attachments) or "file" (output files)
    plCreds,         \* the credentials set in process.env
    plPc,            \* position inside sendDailyPodcastEmail
    allArticles,     \* result of fetchAllFeeds (article ids, newest first)
    plCalls,         \* every stage invoked, in order, with the articles it got
    scriptLength,    \* script.length (0 = no script yet)
    audioBytes,      \* size of the synthesized audio (0 = none yet)
    actualDuration,  \* the duration used in the email (-1 = not set)
    mailsSent,       \* number of sendMail invocations
    plError,         \* the error the run rejected with ("" = none)
    plMishaps,       \* failures caught inside the run: duration, bulletpoints, discord
    \* ---- synthesizePodcast ----
    ttsVariant,      \* "memory" (returns a Buffer) or "file" (writes outputPath)
    ttsKey,          \* process.env.DEEPGRAM_API_KEY is set
    ttsScript,       \* the script argument (an index into Scripts)
    ttsPc,           \* position inside synthesizePodcast
    ttsI,            \* the loop variable i
    ttsRequests,     \* history: every speak.request issued, in order
    served,          \* history: per request, the bytes its stream delivered
    nextByte,        \* the next byte the speech oracle hands out
    streamChunks,    \* the pieces read from the current stream
    allAudioChunks,  \* one buffer per finished chunk
    finalAudioBuffer,\* the combined buffer (set when the loop is over)
    fileWritten,     \* outputPath exists
    fileBytes,       \* the content of outputPath
    ttsError,        \* the error synthesizePodcast rejected with ("" = none)
    \* ---- fetchAllFeeds ----
    feedWorld,       \* what every feed source answers in this run
    feedsPc,         \* position inside fetchAllFeeds ("idle" = not called)
    settled,         \* the feeds whose fetchFeed promise has settled
    feedResults,     \* feedResults of Promise.all, by feed
    fetchedArticles, \* the array fetchAllFeeds resolves with
    \* ---- deduplicateArticles ----
    ddInput,         \* the articles argument
    ddPc,            \* "call", "once" (applied), "twice" (applied to its own result)
    ddOnce,          \* deduplicateArticles(articles)
    ddTwice,         \* deduplicateArticles(deduplicateArticles(articles))
    \* ---- generateArticleId ----
    idItems,         \* two feed entries: link, title, source of each
    idPc,            \* "call" or "done"
    idOf,            \* the id generateArticleId gave each of the two
    \* ---- cleanHtmlContent ----
    sumStripped,     \* striptags(htmlContent): the entry's content without tags
    sumPc,           \* "call" or "done"
    summary,         \* the summary cleanHtmlContent returned
    \* ---- getMP3Duration ----
    durBytes,        \* audioBuffer.length
    durPc,           \* "call", "probing", "threw", "error", "closed", "closedLate"
    durCode,         \* exit code handed to the close handler
    output,          \* what ffprobe wrote to stdout
    durSettled,      \* "pending", "resolved" or "rejected"
    durValue,        \* the number the promise resolved to
    \* ---- dailyRunner ----
    rnEnv,           \* the required variables that are set
    rnTest,          \* process.argv includes '--test'
    rnDiscord,       \* Discord is configured
    rnPc,            \* "start", "scheduled", "testRun", "cronRun", "exited"
    rnTicks,         \* cron ticks so far
    rnFailed,        \* the kinds of run that have failed: "test", "cron"
    rnNotified,      \* error notifications handed to Discord
    rnExit,          \* the exit code (-1 while the process runs)
    \* ---- logger: the Discord client ----
    discordClient,   \* the module's client: 0 for null, else the client's number
    isInitialized,   \* the module's ready flag
    dcClients,       \* the clients created: login state, ready, handlers attached
    dcCalls          \* position of every call: pc, the client it logs in, the one it waits for

curVars == <<articles, apiKey, maxCount, curPc, batchIndex, allSelectedIds,
             oracleLog, aiArticles, uniqueArticles, selectedIds, curError>>

chunkVars == <<ckText, ckMax, ckPc, currentIndex, chunks, cuts>>

plVars == <<plVariant, plCreds, plPc, allArticles, plCalls, scriptLength,
            audioBytes, actualDuration, mailsSent, plError, plMishaps>>

ttsVars == <<ttsVariant, ttsKey, ttsScript, ttsPc, ttsI, ttsRequests, served,
             nextByte, streamChunks, allAudioChunks, finalAudioBuffer,
             fileWritten, fileBytes, ttsError>>

feedVars == <<feedWorld, feedsPc, settled, feedResults, fetchedArticles>>

ddVars == <<ddInput, ddPc, ddOnce, ddTwice>>

idVars == <<idItems, idPc, idOf>>

sumVars == <<sumStripped, sumPc, summary>>

durVars == <<durBytes, durPc, durCode, output, durSettled, durValue>>

rnVars == <<rnEnv, rnTest, rnDiscord, rnPc, rnTicks, rnFailed, rnNotified, rnExit>>

dcVars == <<discordClient, isInitialized, dcClients, dcCalls>>

\* what each component leaves alone: the state of the other components
notCurVars == <<chunkVars, plVars, ttsVars, feedVars, ddVars, idVars, sumVars, durVars, rnVars, dcVars>>
notChunkVars == <<curVars, plVars, ttsVars, feedVars, ddVars, idVars, sumVars, durVars, rnVars, dcVars>>
notPlVars == <<curVars, chunkVars, ttsVars, feedVars, ddVars, idVars, sumVars, durVars, rnVars, dcVars>>
notTtsVars == <<curVars, chunkVars, plVars, feedVars, ddVars, idVars, sumVars, durVars, rnVars, dcVars>>
notFeedVars == <<curVars, chunkVars, plVars, ttsVars, ddVars, idVars, sumVars, durVars, rnVars, dcVars>>
notDdVars == <<curVars, chunkVars, plVars, ttsVars, feedVars, idVars, sumVars, durVars, rnVars, dcVars>>

notIdVars == <<curVars, chunkVars, plVars, ttsVars, feedVars, ddVars, sumVars, durVars, rnVars, dcVars>>

notSumVars == <<curVars, chunkVars, plVars, ttsVars, feedVars, ddVars, idVars, durVars, rnVars, dcVars>>

notDurVars == <<curVars, chunkVars, plVars, ttsVars, feedVars, ddVars, idVars, sumVars, rnVars, dcVars>>

notRnVars == <<curVars, chunkVars, plVars, ttsVars, feedVars, ddVars, idVars, sumVars, durVars, dcVars>>

notDcVars == <<curVars, chunkVars, plVars, ttsVars, feedVars, ddVars, idVars, sumVars, durVars, rnVars>>

vars == <<curVars, chunkVars, plVars, ttsVars, feedVars, ddVars, idVars, sumVars, durVars, rnVars, dcVars>>

(***************************************************************************)
(* Generic helpers: JavaScript array operations on TLA+ sequences.         *)
(***************************************************************************)
Min(a, b) == IF a <= b THEN a ELSE b
Max(a, b) == IF a >= b THEN a ELSE b

\* Array.prototype.includes
Includes(arr, x) == \E k \in 1..Len(arr) : arr[k] = x

\* Array.prototype.slice(start, end) with 0-based, end-exclusive, clamped indexes
Slice(arr, start, end) == SubSeq(arr, Min(start, Len(arr)) + 1, Min(end, Len(arr)))

Range(arr) == {arr[k] : k \in 1..Len(arr)}

(***************************************************************************)
(* Text utilities (textUtils.ts).  A string is a sequence of one-character *)
(* strings.                                                                *)
(***************************************************************************)
UpperChars == <<"A", "B", "C", "D", "E", "F", "G", "H", "I", "J", "K", "L", "M",
                "N", "O", "P", "Q", "R", "S", "T", "U", "V", "W", "X", "Y", "Z">>
LowerChars == <<"a", "b", "c", "d", "e", "f", "g", "h", "i", "j", "k", "l", "m",
                "n", "o", "p", "q", "r", "s", "t", "u", "v", "w", "x", "y", "z">>
DigitChars == <<"0", "1", "2", "3", "4", "5", "6", "7", "8", "9">>

\* \s of a JavaScript regular expression (the characters the model uses)
SpaceChars == {" ", "\t", "\n", "\r"}
IsSpace(c) == c \in SpaceChars

\* \w of a JavaScript regular expression: [A-Za-z0-9_]
WordChars == Range(UpperChars) \cup Range(LowerChars) \cup Range(DigitChars) \cup {"_"}
IsWord(c) == c \in WordChars

\* String.prototype.toLowerCase, one character
LowerChar(c) ==
    IF c \in Range(UpperChars)
    THEN LowerChars[CHOOSE k \in 1..Len(UpperChars) : UpperChars[k] = c]
    ELSE c

toLowerCase(s) == [k \in 1..Len(s) |-> LowerChar(s[k])]

\* String.prototype.trim
trim(s) ==
    LET keep == {k \in 1..Len(s) : ~IsSpace(s[k])}
    IN  IF keep = {} THEN <<>>
        ELSE LET lo == CHOOSE k \in keep : \A j \in keep : k <= j
                 hi == CHOOSE k \in keep : \A j \in keep : k >= j
             IN  SubSeq(s, lo, hi)

\* the same replace with ' ' as replacement: punctuation becomes a blank
StripPunctuationToSpace(s) ==
    [k \in 1..Len(s) |-> IF IsWord(s[k]) \/ IsSpace(s[k]) THEN s[k] ELSE " "]
\* replace(/[^\w\s]/g, ''): drop every character that is neither \w nor \s
StripPunctuation(s) == SelectSeq(s, LAMBDA c : IsWord(c) \/ IsSpace(c))

\* replace(/\s+/g, ' '): every maximal run of whitespace becomes one blank
CollapseSpaces(s) ==
    LET kept == {k \in 1..Len(s) : ~IsSpace(s[k]) \/ k = 1 \/ ~IsSpace(s[k - 1])}
        pick[n \in 0..Len(s)] ==
            IF n = 0 THEN <<>>
            ELSE IF n \in kept
                 THEN Append(pick[n - 1], IF IsSpace(s[n]) THEN " " ELSE s[n])
                 ELSE pick[n - 1]
    IN  pick[Len(s)]

normalizeTitleForDedup(title) ==
    trim(CollapseSpaces(StripPunctuation(toLowerCase(title))))

\* uniqueBy that compares an item's key with the previous item's key only
uniqueByAdjacent(arr, keys) ==
    LET kept == SelectSeq([n \in 1..Len(arr) |-> n],
                          LAMBDA n : n = 1 \/ keys[n - 1] # keys[n])
    IN  [k \in 1..Len(kept) |-> arr[kept[k]]]

\* uniqueBy(arr, key), with keys[k] standing for key(arr[k]).  The filter
\* callback keeps an item when its key is not in the seen set and then adds
\* it; every earlier item's key is in the set by then (added when that item
\* was kept, or already there when it was dropped), so item n is kept exactly
\* when no earlier item has its key.
uniqueBy(arr, keys) ==
    LET ks == SubSeq(keys, 1, Len(arr))
        seenBefore(n, key) == \E j \in 1..(n - 1) : ks[j] = key
        kept == SelectSeq([n \in 1..Len(arr) |-> n], LAMBDA n : ~seenBefore(n, ks[n]))
    IN  [k \in 1..Len(kept) |-> arr[kept[k]]]

\* deduplicateArticles with the passes swapped: first by title, then by link
deduplicateArticlesTitleFirst(arts) ==
    LET byTitle == uniqueBy(arts, [k \in 1..Len(arts) |->
                                      normalizeTitleForDedup(arts[k].title)])
    IN  uniqueBy(byTitle, [k \in 1..Len(byTitle) |-> byTitle[k].link])

\* deduplicateArticles with the title keys taken from the unfiltered list
deduplicateArticlesMisaligned(arts) ==
    LET byLink == uniqueBy(arts, [k \in 1..Len(arts) |-> arts[k].link])
    IN  uniqueBy(byLink, [k \in 1..Len(arts) |-> normalizeTitleForDedup(arts[k].title)])

\* deduplicateArticles: first by link, then by normalized title
deduplicateArticles(arts) ==
    LET byLink  == uniqueBy(arts, [k \in 1..Len(arts) |-> arts[k].link])
        byTitle == uniqueBy(byLink, [k \in 1..Len(byLink) |->
                                        normalizeTitleForDedup(byLink[k].title)])
    IN  byTitle

(***************************************************************************)
(* Article curator: selectTopArticles = filterAIArticles (Pass A),         *)
(* deduplicateArticles, selectArticlesWithAI (Pass B).                     *)
(***************************************************************************)
\* const CHUNK_SIZE = 100 in filterAIArticles
CHUNK_SIZE == 100

\* The largest input has MaxBatches full batches and one article more.
MaxBatches == 2
\* The ranking oracle answers with at most MaxRespLen ids.
MaxRespLen == 2
\* opts.maxCount is drawn from 0..MaxCount.
MaxCount == 2

CeilDiv(a, b) == (a + b - 1) \div b

\* The decimal digits of n, as characters.
Digits(n) ==
    LET d[m \in 0..n] ==
            IF m < 10 THEN <<DigitChars[m + 1]>>
            ELSE Append(d[m \div 10], DigitChars[(m % 10) + 1])
    IN  d[n]

\* The title of the i-th article of an input list, and the same headline as
\* another feed re-publishes it (upper case, trailing punctuation).
TitleOf(i) == <<"n">> \o Digits(i)
Republished(title) == <<"N">> \o Tail(title) \o <<"!">>

\* The i-th of n input articles.  Ids are the ones generateArticleId derives:
\* equal links give equal ids.  dup = "link": the last article carries the
\* link (hence the id) of the first; dup = "title": the last article is the
\* first one's headline re-published under another link.  kw says whether
\* title or summary contains one of AI_KEYWORDS.
ArticleAt(i, n, dup, kwMode) ==
    LET same == (i = n /\ n > 1)
        key  == IF same /\ dup = "link" THEN 1 ELSE i
    IN  [id    |-> key,
         link  |-> key,
         title |-> IF same /\ dup = "title" THEN Republished(TitleOf(1)) ELSE TitleOf(i),
         kw    |-> (kwMode = "all") \/ (kwMode = "odd" /\ i % 2 = 1)]

ArticleList(n, dup, kwMode) == [i \in 1..n |-> ArticleAt(i, n, dup, kwMode)]

\* Input sizes: none, one, the spec's 120-article scenario, and the sizes
\* around every multiple of the batch size up to MaxBatches batches.
ArticleCounts ==
    {0, 1, CHUNK_SIZE + CHUNK_SIZE \div 5}
        \cup {k * CHUNK_SIZE + d : k \in 1..MaxBatches, d \in {-1, 0, 1}}

\* An id that no article of the run carries.
FabricatedId(arts) == Len(arts) + 1

Ids(arts) == [k \in 1..Len(arts) |-> arts[k].id]

\* What the completion oracle can do with one request: reject (network or
\* API error), answer without content, answer with text that is not JSON,
\* answer with JSON that lacks the id array, or answer with an id array.
Failure(kind) == [kind |-> kind, ids |-> <<>>]
Answer(ids) == [kind |-> "ok", ids |-> ids]
FailureKinds == {"reject", "nocontent", "badjson", "nofield"}

\* Answers of the relevance oracle to one batch: nothing relevant, every
\* article of the batch, an id of an article outside the batch (the first
\* article of the run), or an id no article carries.
FilterResponses(arts, chunkIds) ==
    {Failure(k) : k \in FailureKinds}
        \cup {Answer(<<>>), Answer(chunkIds), Answer(<<arts[1].id>>),
              Answer(<<FabricatedId(arts)>>)}

\* Answers of the ranking oracle: every id list of at most MaxRespLen ids over
\* the first and last candidate and an id that is not a candidate.
RankIds(arts, cands) == {cands[1].id, cands[Len(cands)].id, FabricatedId(arts)}
RankResponses(arts, cands) ==
    {Failure(k) : k \in FailureKinds}
        \cup {Answer(ids) : ids \in UNION {[1..n -> RankIds(arts, cands)] : n \in 0..MaxRespLen}}

\* processArticleChunk: the ids the oracle named, or a thrown error
processArticleChunk(resp) ==
    IF resp.kind = "ok" THEN [ok |-> TRUE, ids |-> resp.ids]
    ELSE [ok |-> FALSE, ids |-> <<>>]

\* selectArticlesWithAI returning one id more than maxCount
selectArticlesWithAIOneMore(resp, max) ==
    IF resp.kind = "ok" THEN [ok |-> TRUE, ids |-> Slice(resp.ids, 0, max + 1)]
    ELSE [ok |-> FALSE, ids |-> <<>>]

\* selectArticlesWithAI after the oracle answered: parse, check the shape,
\* "validate and limit": result.selectedIds.slice(0, maxCount)
selectArticlesWithAI(resp, max) ==
    IF resp.kind = "ok" THEN [ok |-> TRUE, ids |-> Slice(resp.ids, 0, max)]
    ELSE [ok |-> FALSE, ids |-> <<>>]

\* articles.filter(article => ids.includes(article.id))
FilterByIds(arts, ids) == SelectSeq(arts, LAMBDA a : Includes(ids, a.id))

\* the keyword fallback of filterAIArticles
FilterByKeywords(arts) == SelectSeq(arts, LAMBDA a : a.kw)

\* A loop that advances only past a batch that succeeded, so that a failed
\* batch is issued again.
NextBatchIndexRetry(i, ok) == IF ok THEN i + CHUNK_SIZE ELSE i

\* the for-loop increment of the chunked Pass A loop: i += CHUNK_SIZE,
\* whether the batch succeeded or was skipped
NextBatchIndex(i, ok) == i + CHUNK_SIZE

NoRelevantError == "No AI-related articles found"
NoKeyError == "OpenAI API key not configured"
FilterOracleError == "relevance oracle call failed"
RankOracleError == "ranking oracle call failed"

CurInit ==
    /\ apiKey \in BOOLEAN
    /\ maxCount \in 0..MaxCount
    /\ \E n \in ArticleCounts, dup \in {"none", "link", "title"}, kwMode \in {"none", "odd", "all"} :
          /\ apiKey => kwMode = "none"
          /\ ~apiKey => dup = "none"
          /\ articles = ArticleList(n, dup, kwMode)
    /\ curPc = "start"
    /\ batchIndex = 0
    /\ allSelectedIds = <<>>
    /\ oracleLog = <<>>
    /\ aiArticles = <<>>
    /\ uniqueArticles = <<>>
    /\ selectedIds = <<>>
    /\ curError = ""

\* filterAIArticles up to its first oracle call
FilterStart ==
    /\ curPc = "start"
    /\ IF Len(articles) = 0
       THEN /\ aiArticles' = <<>>
            /\ curPc' = "filtered"
       ELSE IF ~apiKey
       THEN /\ aiArticles' = FilterByKeywords(articles)
            /\ curPc' = "filtered"
       ELSE /\ aiArticles' = aiArticles
            /\ curPc' = IF Len(articles) > CHUNK_SIZE THEN "loop" ELSE "single"
    /\ UNCHANGED <<articles, apiKey, maxCount, batchIndex, allSelectedIds,
                   oracleLog, uniqueArticles, selectedIds, curError>>
    /\ UNCHANGED notCurVars

\* one iteration of the chunked loop: slice the batch, call the oracle
IssueBatch ==
    /\ curPc = "loop"
    /\ batchIndex < Len(articles)
    /\ oracleLog' = Append(oracleLog,
            [call |-> "filter", ev |-> "issue", at |-> batchIndex,
             ids |-> Ids(Slice(articles, batchIndex, batchIndex + CHUNK_SIZE))])
    /\ curPc' = "awaitBatch"
    /\ UNCHANGED <<articles, apiKey, maxCount, batchIndex, allSelectedIds,
                   aiArticles, uniqueArticles, selectedIds, curError>>
    /\ UNCHANGED notCurVars

\* the awaited call of a batch settles: push the ids, or catch and skip
BatchSettles ==
    /\ curPc = "awaitBatch"
    /\ \E resp \in FilterResponses(articles,
                      Ids(Slice(articles, batchIndex, batchIndex + CHUNK_SIZE))) :
          LET r == processArticleChunk(resp)
          IN  /\ allSelectedIds' = IF r.ok THEN allSelectedIds \o r.ids ELSE allSelectedIds
              /\ oracleLog' = Append(oracleLog,
                      [call |-> "filter", ev |-> "complete", at |-> batchIndex, ok |-> r.ok])
              /\ batchIndex' = NextBatchIndex(batchIndex, r.ok)
    /\ curPc' = "loop"
    /\ UNCHANGED <<articles, apiKey, maxCount, aiArticles, uniqueArticles,
                   selectedIds, curError>>
    /\ UNCHANGED notCurVars

\* the loop is over: filter the articles by all selected ids and return
LoopExit ==
    /\ curPc = "loop"
    /\ batchIndex >= Len(articles)
    /\ aiArticles' = FilterByIds(articles, allSelectedIds)
    /\ curPc' = "filtered"
    /\ UNCHANGED <<articles, apiKey, maxCount, batchIndex, allSelectedIds,
                   oracleLog, uniqueArticles, selectedIds, curError>>
    /\ UNCHANGED notCurVars

\* at most CHUNK_SIZE articles: one call for all of them
IssueSingle ==
    /\ curPc = "single"
    /\ oracleLog' = Append(oracleLog,
            [call |-> "filter", ev |-> "issue", at |-> 0, ids |-> Ids(articles)])
    /\ curPc' = "awaitSingle"
    /\ UNCHANGED <<articles, apiKey, maxCount, batchIndex, allSelectedIds,
                   aiArticles, uniqueArticles, selectedIds, curError>>
    /\ UNCHANGED notCurVars

\* the single call settles: its error is not caught, neither by
\* filterAIArticles nor by selectTopArticles
SingleSettles ==
    /\ curPc = "awaitSingle"
    /\ \E resp \in FilterResponses(articles, Ids(articles)) :
          LET r == processArticleChunk(resp)
          IN  /\ oracleLog' = Append(oracleLog,
                      [call |-> "filter", ev |-> "complete", at |-> 0, ok |-> r.ok])
              /\ IF r.ok
                 THEN /\ aiArticles' = FilterByIds(articles, r.ids)
                      /\ curPc' = "filtered"
                      /\ curError' = curError
                 ELSE /\ aiArticles' = aiArticles
                      /\ curPc' = "failed"
                      /\ curError' = FilterOracleError
    /\ UNCHANGED <<articles, apiKey, maxCount, batchIndex, allSelectedIds,
                   uniqueArticles, selectedIds>>
    /\ UNCHANGED notCurVars

\* selectTopArticles after Pass A: the zero check, deduplication, and
\* selectArticlesWithAI up to its oracle call
AfterFilter ==
    /\ curPc = "filtered"
    /\ IF Len(aiArticles) = 0
       THEN /\ curPc' = "failed"
            /\ curError' = NoRelevantError
            /\ UNCHANGED <<uniqueArticles, oracleLog>>
       ELSE /\ uniqueArticles' = deduplicateArticles(aiArticles)
            /\ IF ~apiKey
               THEN /\ curPc' = "failed"
                    /\ curError' = NoKeyError
                    /\ oracleLog' = oracleLog
               ELSE /\ curPc' = "awaitRank"
                    /\ curError' = curError
                    /\ oracleLog' = Append(oracleLog,
                            [call |-> "rank", ev |-> "issue", at |-> 0,
                             ids |-> Ids(uniqueArticles')])
    /\ UNCHANGED <<articles, apiKey, maxCount, batchIndex, allSelectedIds,
                   aiArticles, selectedIds>>
    /\ UNCHANGED notCurVars

\* the ranking call settles: selectArticlesWithAI returns or throws
RankSettles ==
    /\ curPc = "awaitRank"
    /\ \E resp \in RankResponses(articles, uniqueArticles) :
          LET r == selectArticlesWithAI(resp, maxCount)
          IN  /\ oracleLog' = Append(oracleLog,
                      [call |-> "rank", ev |-> "complete", at |-> 0, ok |-> r.ok,
                       answer |-> resp.ids])
              /\ IF r.ok
                 THEN /\ selectedIds' = r.ids
                      /\ curPc' = "done"
                      /\ curError' = curError
                 ELSE /\ selectedIds' = selectedIds
                      /\ curPc' = "failed"
                      /\ curError' = RankOracleError
    /\ UNCHANGED <<articles, apiKey, maxCount, batchIndex, allSelectedIds,
                   aiArticles, uniqueArticles>>
    /\ UNCHANGED notCurVars

CurNext ==
    \/ FilterStart
    \/ IssueBatch
    \/ BatchSettles
    \/ LoopExit
    \/ IssueSingle
    \/ SingleSettles
    \/ AfterFilter
    \/ RankSettles

(***************************************************************************)
(* chunkText (tts.ts): sentence-aware splitting of the script.             *)
(***************************************************************************)
\* chunkText's default maxLength
DefaultMaxLength == 1900

\* Texts of the chunking specification have at most MaxTextLen characters
\* and are cut with a maxLength of 1..MaxChunkLen.
MaxTextLen == 5
MaxChunkLen == 3

\* an ordinary character, a blank, and the three sentence terminators
ChunkChars == {"a", " ", ".", "?", "!"}

\* String.prototype.lastIndexOf(ch, fromIndex), 0-based; -1 when absent
lastIndexOf(text, ch, fromIndex) ==
    LET hits == {k \in 0..Min(fromIndex, Len(text) - 1) : text[k + 1] = ch}
    IN  IF hits = {} THEN -1 ELSE CHOOSE k \in hits : \A j \in hits : j <= k

Max3(a, b, c) == Max(a, Max(b, c))

\* a cut that also accepts a terminator exactly half of maxLength behind the
\* greedy end
EndIndexAtHalf(text, maxLength, cur) ==
    LET greedy == cur + maxLength
    IN  IF greedy < Len(text)
        THEN LET lastBreak == Max3(lastIndexOf(text, ".", greedy),
                                   lastIndexOf(text, "?", greedy),
                                   lastIndexOf(text, "!", greedy))
             IN  IF 2 * lastBreak >= 2 * cur + maxLength THEN lastBreak + 1 ELSE greedy
        ELSE greedy

\* a cut that accepts every terminator at or after the cursor
EndIndexAnyBreak(text, maxLength, cur) ==
    LET greedy == cur + maxLength
    IN  IF greedy < Len(text)
        THEN LET lastBreak == Max3(lastIndexOf(text, ".", greedy),
                                   lastIndexOf(text, "?", greedy),
                                   lastIndexOf(text, "!", greedy))
             IN  IF lastBreak >= cur THEN lastBreak + 1 ELSE greedy
        ELSE greedy

\* the cut of one loop iteration: the greedy end, or just after the last
\* sentence terminator when that lies beyond half of maxLength
\* (lastBreak > currentIndex + maxLength * 0.5, doubled to stay in integers)
EndIndex(text, maxLength, cur) ==
    LET greedy == cur + maxLength
    IN  IF greedy < Len(text)
        THEN LET lastBreak == Max3(lastIndexOf(text, ".", greedy),
                                   lastIndexOf(text, "?", greedy),
                                   lastIndexOf(text, "!", greedy))
             IN  IF 2 * lastBreak > 2 * cur + maxLength THEN lastBreak + 1 ELSE greedy
        ELSE greedy

\* A cursor that steps over the character at the cut.
NextCursorSkip(endIndex) == endIndex + 1

\* currentIndex = endIndex
NextCursor(endIndex) == endIndex

\* the loop of chunkText from cursor cur on, with the chunks pushed so far
RECURSIVE ChunkLoop(_, _, _, _)
ChunkLoop(text, maxLength, cur, acc) ==
    IF cur < Len(text)
    THEN LET endIndex == EndIndex(text, maxLength, cur)
         IN  ChunkLoop(text, maxLength, NextCursor(endIndex),
                       Append(acc, trim(Slice(text, cur, endIndex))))
    ELSE acc

chunkText(text, maxLength) ==
    IF Len(text) <= maxLength THEN <<text>> ELSE ChunkLoop(text, maxLength, 0, <<>>)

Strings(alphabet, maxLen) == UNION {[1..n -> alphabet] : n \in 0..maxLen}

ChunkInit ==
    /\ ckText \in Strings(ChunkChars, MaxTextLen)
    /\ ckMax \in 1..MaxChunkLen
    /\ ckPc = "call"
    /\ currentIndex = 0
    /\ chunks = <<>>
    /\ cuts = <<>>

\* texts of letters and terminators, long enough for a terminator to lie
\* strictly between half of maxLength and the greedy end
MaxCutTextLen == 7
MaxCutChunkLen == 5
CutChars == {"a", ".", "?"}

ChunkCutsInit ==
    /\ ckText \in Strings(CutChars, MaxCutTextLen)
    /\ ckMax \in 1..MaxCutChunkLen
    /\ ckPc = "call"
    /\ currentIndex = 0
    /\ chunks = <<>>
    /\ cuts = <<>>

\* the same with one terminator only, for the runs to the return
LiveChars == {"a", "."}

ChunkLiveInit ==
    /\ ckText \in Strings(LiveChars, MaxCutTextLen)
    /\ ckMax \in 1..MaxCutChunkLen
    /\ ckPc = "call"
    /\ currentIndex = 0
    /\ chunks = <<>>
    /\ cuts = <<>>

ChunkIdle ==
    /\ ckText = <<>>
    /\ ckMax = DefaultMaxLength
    /\ ckPc = "idle"
    /\ currentIndex = 0
    /\ chunks = <<>>
    /\ cuts = <<>>

\* the early return for a text that fits, or the entry into the loop
ChunkCall ==
    /\ ckPc = "call"
    /\ IF Len(ckText) <= ckMax
       THEN /\ chunks' = <<ckText>>
            /\ ckPc' = "done"
       ELSE /\ chunks' = <<>>
            /\ ckPc' = "loop"
    /\ UNCHANGED <<ckText, ckMax, currentIndex, cuts>>
    /\ UNCHANGED notChunkVars

\* one iteration of the while loop
ChunkStep ==
    /\ ckPc = "loop"
    /\ currentIndex < Len(ckText)
    /\ LET endIndex == EndIndex(ckText, ckMax, currentIndex)
       IN  /\ chunks' = Append(chunks, trim(Slice(ckText, currentIndex, endIndex)))
           /\ cuts' = Append(cuts, <<currentIndex, endIndex>>)
           /\ currentIndex' = NextCursor(endIndex)
    /\ UNCHANGED <<ckText, ckMax, ckPc>>
    /\ UNCHANGED notChunkVars

\* the loop condition fails: return chunks
ChunkReturn ==
    /\ ckPc = "loop"
    /\ currentIndex >= Len(ckText)
    /\ ckPc' = "done"
    /\ UNCHANGED <<ckText, ckMax, currentIndex, chunks, cuts>>
    /\ UNCHANGED notChunkVars

ChunkNext ==
    \/ ChunkCall
    \/ ChunkStep
    \/ ChunkReturn

(***************************************************************************)
(* sendDailyPodcastEmail: the pipeline run.  The stages are awaited one    *)
(* after the other inside one try block; each stage is an external         *)
(* collaborator whose outcome is chosen here.                              *)
(***************************************************************************)
ScriptArticleLimit == 20
MaxFetched == 2
MaxScriptLen == 3
MaxAudio == 2
MaxSeconds == 2

Credentials == {"EMAIL", "OPENAI_API_KEY", "DEEPGRAM_API_KEY"}
Variants == {"memory", "file"}

\* numbers of articles fetchAllFeeds may resolve with
FetchCounts == (0..MaxFetched) \cup {ScriptArticleLimit + 1}

\* article ids 1..n in the order fetchAllFeeds returned them
Fetched(n) == [k \in 1..n |-> k]

\* Math.round(script.length / 2.5)
EstimateFromScript(len) == (4 * len + 5) \div 10

\* the articles handed to generatePodcastScript
ScriptInput(variant, arts) ==
    IF variant = "file" THEN Slice(arts, 0, ScriptArticleLimit) ELSE arts

\* the Discord notifications awaited so far (logProcessStart, log...): each
\* is sent, or fails inside sendDiscordEmbed, which catches the error
NotifyOutcomes(variant, mishaps) ==
    IF variant = "memory" THEN {mishaps, mishaps \cup {"discord"}} ELSE {mishaps}

PlInit ==
    /\ plVariant \in Variants
    /\ plCreds \in SUBSET Credentials
    /\ plPc = "fetch"
    /\ allArticles = <<>>
    /\ plCalls = <<>>
    /\ scriptLength = 0
    /\ audioBytes = 0
    /\ actualDuration = -1
    /\ mailsSent = 0
    /\ plError = ""
    /\ plMishaps = {}

PlIdle ==
    /\ plVariant = "memory"
    /\ plCreds = {}
    /\ plPc = "idle"
    /\ allArticles = <<>>
    /\ plCalls = <<>>
    /\ scriptLength = 0
    /\ audioBytes = 0
    /\ actualDuration = -1
    /\ mailsSent = 0
    /\ plError = ""
    /\ plMishaps = {}

\* a stage threw and the run goes on to the mail transport all the same
ThrowAndGoOn(err) ==
    /\ plPc' = "transport"
    /\ plError' = err

\* a stage threw: control goes to the catch block with that error
Throw(err) ==
    /\ plPc' = "catch"
    /\ plError' = err

\* Step 1: fetchAllFeeds (it resolves whatever the feeds do)
PlFetch ==
    /\ plPc = "fetch"
    /\ \E n \in FetchCounts :
          /\ allArticles' = Fetched(n)
          /\ plCalls' = Append(plCalls, [stage |-> "fetchAllFeeds", input |-> <<>>])
    /\ plMishaps' \in NotifyOutcomes(plVariant, plMishaps)
    /\ plPc' = "script"
    /\ UNCHANGED <<plVariant, plCreds, scriptLength, audioBytes, actualDuration,
                   mailsSent, plError>>
    /\ UNCHANGED notPlVars

\* Step 2: generatePodcastScript
PlScript ==
    /\ plPc = "script"
    /\ LET input == ScriptInput(plVariant, allArticles)
       IN  /\ plCalls' = Append(plCalls, [stage |-> "generatePodcastScript", input |-> input])
           /\ IF "OPENAI_API_KEY" \notin plCreds
              THEN Throw("Missing required environment variable: OPENAI_API_KEY") /\ UNCHANGED scriptLength
              ELSE IF Len(input) = 0
              THEN Throw("No articles provided for podcast generation") /\ UNCHANGED scriptLength
              ELSE \/ Throw("script oracle failed") /\ UNCHANGED scriptLength
                   \/ \E len \in 1..MaxScriptLen :
                         /\ scriptLength' = len
                         /\ plPc' = "synth"
                         /\ UNCHANGED plError
    /\ UNCHANGED <<plMishaps, plVariant, plCreds, allArticles, audioBytes, actualDuration, mailsSent>>
    /\ UNCHANGED notPlVars

\* Step 3: synthesizePodcast
PlSynth ==
    /\ plPc = "synth"
    /\ plCalls' = Append(plCalls, [stage |-> "synthesizePodcast", input |-> <<>>])
    /\ IF "DEEPGRAM_API_KEY" \notin plCreds
       THEN Throw("Missing required environment variable: DEEPGRAM_API_KEY") /\ UNCHANGED audioBytes
       ELSE \/ Throw("speech synthesis failed") /\ UNCHANGED audioBytes
            \/ \E bytes \in 1..MaxAudio :
                  /\ audioBytes' = bytes
                  /\ plPc' = "duration"
                  /\ UNCHANGED plError
    /\ UNCHANGED <<plMishaps, plVariant, plCreds, allArticles, scriptLength, actualDuration, mailsSent>>
    /\ UNCHANGED notPlVars

\* Step 4.5: getMP3Duration inside its own try/catch
PlDuration ==
    /\ plPc = "duration"
    /\ plCalls' = Append(plCalls, [stage |-> "getMP3Duration", input |-> <<>>])
    /\ \/ /\ \E seconds \in 0..MaxSeconds : actualDuration' = seconds
          /\ UNCHANGED plMishaps
       \/ /\ actualDuration' = EstimateFromScript(scriptLength)
          /\ plMishaps' = plMishaps \cup {"duration"}
    /\ plPc' = "extras"
    /\ UNCHANGED <<plVariant, plCreds, allArticles, scriptLength, audioBytes, mailsSent, plError>>
    /\ UNCHANGED notPlVars

\* Steps 5-7: the script attachment and the extras of the email.  In memory:
\* generateBulletpoints, which catches its own errors.  With files:
\* savePodcastScript (a file write, which may throw) and the Drive upload
\* inside its own try/catch.
PlExtras ==
    /\ plPc = "extras"
    /\ \/ /\ plPc' = "transport"
          /\ UNCHANGED <<plError, plMishaps>>
       \/ /\ plVariant = "memory"
          /\ plPc' = "transport"
          /\ plMishaps' = plMishaps \cup {"bulletpoints"}
          /\ UNCHANGED plError
       \/ /\ plVariant = "file"
          /\ Throw("cannot write podcast.txt")
          /\ UNCHANGED plMishaps
    /\ UNCHANGED <<plVariant, plCreds, allArticles, plCalls, scriptLength, audioBytes,
                   actualDuration, mailsSent>>
    /\ UNCHANGED notPlVars

\* createTransporter and transporter.verify
PlTransport ==
    /\ plPc = "transport"
    /\ IF "EMAIL" \notin plCreds
       THEN Throw("Missing required environment variables: EMAIL_USER, EMAIL_PASS")
       ELSE \/ Throw("SMTP verify failed")
            \/ /\ plPc' = "send"
               /\ UNCHANGED plError
    /\ UNCHANGED <<plMishaps, plVariant, plCreds, allArticles, plCalls, scriptLength, audioBytes,
                   actualDuration, mailsSent>>
    /\ UNCHANGED notPlVars

\* transporter.sendMail
PlSendMail ==
    /\ plPc = "send"
    /\ plCalls' = Append(plCalls, [stage |-> "sendMail", input |-> <<>>])
    /\ mailsSent' = mailsSent + 1
    /\ \/ Throw("sendMail failed")
       \/ /\ plPc' = "resolved"
          /\ UNCHANGED plError
    /\ UNCHANGED <<plMishaps, plVariant, plCreds, allArticles, scriptLength, audioBytes, actualDuration>>
    /\ UNCHANGED notPlVars

\* the catch block: report and rethrow
PlCatch ==
    /\ plPc = "catch"
    /\ plPc' = "rejected"
    /\ UNCHANGED <<plMishaps, plVariant, plCreds, allArticles, plCalls, scriptLength, audioBytes,
                   actualDuration, mailsSent, plError>>
    /\ UNCHANGED notPlVars

PlNext ==
    \/ PlFetch
    \/ PlScript
    \/ PlSynth
    \/ PlDuration
    \/ PlExtras
    \/ PlTransport
    \/ PlSendMail
    \/ PlCatch

(***************************************************************************)
(* synthesizePodcast: the script is chunked, every chunk is sent to the    *)
(* speech oracle and its byte stream read to the end before the next       *)
(* chunk is requested; the buffers are combined at the end.                *)
(***************************************************************************)
MaxLongScripts == 2
MaxPieces == 2

\* sizes of the pieces a stream delivers
PieceSizes == {0, 2}

\* a script of k * 1900 + 1 characters made of 100-character sentences
LongScript(k) ==
    [p \in 1..(k * DefaultMaxLength + 1) |->
        IF p % 100 = 0 THEN "." ELSE IF p % 100 = 1 /\ p > 1 THEN " " ELSE "a"]

\* a script of 1901 characters: one sentence of 1900 characters and the
\* newline that ends the script
NewlineEndedScript ==
    [p \in 1..(DefaultMaxLength + 1) |->
        IF p = DefaultMaxLength + 1 THEN "\n"
        ELSE IF p = DefaultMaxLength THEN "." ELSE "a"]

\* the scripts synthesizePodcast is called with: empty, blank, one short
\* sentence, a long sentence ended by a newline, and scripts longer than the
\* chunk length
Scripts ==
    <<<<>>, <<" ", "\n">>, <<"a", ".">>, NewlineEndedScript>>
        \o [k \in 1..MaxLongScripts |-> LongScript(k)]

\* !script || script.trim().length === 0
IsBlankScript(script) == Len(trim(script)) = 0

\* textChunks = chunkText(script), for every script
TextChunks == [id \in 1..Len(Scripts) |-> chunkText(Scripts[id], DefaultMaxLength)]

\* the concatenation of a list of buffers (Buffer.concat)
BufferConcat(bufs) ==
    LET cat[n \in 0..Len(bufs)] == IF n = 0 THEN <<>> ELSE cat[n - 1] \o bufs[n]
    IN  cat[Len(bufs)]

\* allAudioChunks.push(audioBuffer)
PushAudioFront(all, buf) == <<buf>> \o all
PushAudio(all, buf) == Append(all, buf)

\* where control goes when a chunk's request, stream or read fails
OnChunkFailureSkip == "loop"
OnChunkFailure == "catch"

\* errors of one chunk: the oracle's request, its stream, the read
ChunkErrors ==
    {"speak.request rejected", "No response received from Deepgram",
     "getStream rejected", "No audio stream received from Deepgram",
     "reader.read rejected"}

TtsInit ==
    /\ ttsVariant \in Variants
    /\ ttsKey \in BOOLEAN
    /\ ttsScript \in 1..Len(Scripts)
    /\ ttsPc = "entry"
    /\ ttsI = 0
    /\ ttsRequests = <<>>
    /\ served = <<>>
    /\ nextByte = 1
    /\ streamChunks = <<>>
    /\ allAudioChunks = <<>>
    /\ finalAudioBuffer = <<>>
    /\ fileWritten = FALSE
    /\ fileBytes = <<>>
    /\ ttsError = ""

TtsIdle ==
    /\ ttsVariant = "memory"
    /\ ttsKey = FALSE
    /\ ttsScript = 1
    /\ ttsPc = "idle"
    /\ ttsI = 0
    /\ ttsRequests = <<>>
    /\ served = <<>>
    /\ nextByte = 1
    /\ streamChunks = <<>>
    /\ allAudioChunks = <<>>
    /\ finalAudioBuffer = <<>>
    /\ fileWritten = FALSE
    /\ fileBytes = <<>>
    /\ ttsError = ""

\* a chunk failed: the error is thrown inside the try block
ChunkFails(err) ==
    /\ ttsPc' = OnChunkFailure
    /\ ttsError' = err

\* the checks before the try block, the output directory, chunkText
TtsEntry ==
    /\ ttsPc = "entry"
    /\ IF ~ttsKey
       THEN /\ ttsPc' = "rejected"
            /\ ttsError' = "Missing required environment variable: DEEPGRAM_API_KEY"
       ELSE IF IsBlankScript(Scripts[ttsScript])
       THEN /\ ttsPc' = "rejected"
            /\ ttsError' = "Script cannot be empty"
       ELSE \/ /\ ttsPc' = "loop"
               /\ UNCHANGED ttsError
            \/ /\ ttsVariant = "file"
               /\ ttsPc' = "catch"
               /\ ttsError' = "mkdirSync failed"
    /\ UNCHANGED <<ttsVariant, ttsKey, ttsScript, ttsI, ttsRequests, served, nextByte,
                   streamChunks, allAudioChunks, finalAudioBuffer, fileWritten, fileBytes>>
    /\ UNCHANGED notTtsVars

\* for (let i = 0; i < textChunks.length; i++): speak.request for chunk i
TtsRequest ==
    /\ ttsPc = "loop"
    /\ ttsI < Len(TextChunks[ttsScript])
    /\ ttsRequests' = Append(ttsRequests, [chunk |-> ttsI + 1,
                                           text |-> Len(TextChunks[ttsScript][ttsI + 1])])
    /\ served' = Append(served, [chunk |-> ttsI + 1, bytes |-> <<>>, done |-> FALSE])
    /\ ttsPc' = "awaitResponse"
    /\ UNCHANGED <<ttsVariant, ttsKey, ttsScript, ttsI, nextByte, streamChunks,
                   allAudioChunks, finalAudioBuffer, fileWritten, fileBytes, ttsError>>
    /\ UNCHANGED notTtsVars

\* the request settles: rejected, no response, or a response
TtsResponse ==
    /\ ttsPc = "awaitResponse"
    /\ \/ ChunkFails("speak.request rejected")
       \/ ChunkFails("No response received from Deepgram")
       \/ /\ ttsPc' = "awaitStream"
          /\ UNCHANGED ttsError
    /\ UNCHANGED <<ttsVariant, ttsKey, ttsScript, ttsI, ttsRequests, served, nextByte,
                   streamChunks, allAudioChunks, finalAudioBuffer, fileWritten, fileBytes>>
    /\ UNCHANGED notTtsVars

\* response.getStream() settles: rejected, no stream, or a stream
TtsGetStream ==
    /\ ttsPc = "awaitStream"
    /\ \/ ChunkFails("getStream rejected") /\ UNCHANGED streamChunks
       \/ ChunkFails("No audio stream received from Deepgram") /\ UNCHANGED streamChunks
       \/ /\ ttsPc' = "reading"
          /\ streamChunks' = <<>>
          /\ UNCHANGED ttsError
    /\ UNCHANGED <<ttsVariant, ttsKey, ttsScript, ttsI, ttsRequests, served, nextByte,
                   allAudioChunks, finalAudioBuffer, fileWritten, fileBytes>>
    /\ UNCHANGED notTtsVars

\* one reader.read(): a piece, the end of the stream (the chunk's buffer is
\* built and pushed, i++), or an error
TtsRead ==
    /\ ttsPc = "reading"
    /\ \/ /\ Len(streamChunks) < MaxPieces
          /\ \E size \in PieceSizes :
                LET value == [k \in 1..size |-> nextByte + k - 1]
                IN  /\ streamChunks' = Append(streamChunks, value)
                    /\ served' = [served EXCEPT ![Len(served)].bytes = @ \o value]
                    /\ nextByte' = nextByte + size
          /\ UNCHANGED <<ttsPc, ttsI, allAudioChunks, ttsError>>
       \/ /\ allAudioChunks' = PushAudio(allAudioChunks, BufferConcat(streamChunks))
          /\ served' = [served EXCEPT ![Len(served)].done = TRUE]
          /\ ttsI' = ttsI + 1
          /\ ttsPc' = "loop"
          /\ UNCHANGED <<streamChunks, nextByte, ttsError>>
       \/ /\ ChunkFails("reader.read rejected")
          /\ UNCHANGED <<streamChunks, served, nextByte, ttsI, allAudioChunks>>
    /\ UNCHANGED <<ttsVariant, ttsKey, ttsScript, ttsRequests, finalAudioBuffer,
                   fileWritten, fileBytes>>
    /\ UNCHANGED notTtsVars

\* after the loop: Buffer.concat(allAudioChunks); the buffer is returned, or
\* written to outputPath (a failed write may leave any prefix of it behind)
TtsCombine ==
    /\ ttsPc = "loop"
    /\ ttsI >= Len(TextChunks[ttsScript])
    /\ LET buffer == BufferConcat(allAudioChunks)
       IN  /\ finalAudioBuffer' = buffer
           /\ IF ttsVariant = "memory"
              THEN /\ ttsPc' = "resolved"
                   /\ UNCHANGED <<fileWritten, fileBytes, ttsError>>
              ELSE \/ /\ fileWritten' = TRUE
                      /\ fileBytes' = buffer
                      /\ ttsPc' = "resolved"
                      /\ UNCHANGED ttsError
                   \/ /\ ttsPc' = "catch"
                      /\ ttsError' = "writeFileSync failed"
                      /\ \/ UNCHANGED <<fileWritten, fileBytes>>
                         \/ \E n \in 0..Len(buffer) :
                               /\ fileWritten' = TRUE
                               /\ fileBytes' = SubSeq(buffer, 1, n)
    /\ UNCHANGED <<ttsVariant, ttsKey, ttsScript, ttsI, ttsRequests, served, nextByte,
                   streamChunks, allAudioChunks>>
    /\ UNCHANGED notTtsVars

\* the catch block: report and rethrow
TtsCatch ==
    /\ ttsPc = "catch"
    /\ ttsPc' = "rejected"
    /\ UNCHANGED <<ttsVariant, ttsKey, ttsScript, ttsI, ttsRequests, served, nextByte,
                   streamChunks, allAudioChunks, finalAudioBuffer, fileWritten,
                   fileBytes, ttsError>>
    /\ UNCHANGED notTtsVars

TtsNext ==
    \/ TtsEntry
    \/ TtsRequest
    \/ TtsResponse
    \/ TtsGetStream
    \/ TtsRead
    \/ TtsCombine
    \/ TtsCatch

(***************************************************************************)
(* fetchFeed / fetchAllFeeds: every feed is fetched in parallel, a failed  *)
(* feed yields [], the results are flattened in feed order and sorted by   *)
(* publication date, newest first.                                         *)
(***************************************************************************)
MaxItems == 3
MaxDatedItems == 2
MaxDatedTotal == 4

\* the feed sources (RSS_FEEDS has 12 URLs; three stand for them)
RSS_FEEDS == <<"A", "B", "C">>
FeedIds == 1..Len(RSS_FEEDS)

\* the time new Date() gives while the feeds are fetched
FetchTime == 2
\* parseable publication dates of feed items: before and after the fetch time
ItemDates == {1, 3}
\* an item without pubDate and isoDate; an item whose pubDate does not parse
Missing == 0
Unparseable == -1

\* item.pubDate || item.isoDate || new Date().toISOString()
PubDateOf(date) == IF date = Missing THEN FetchTime ELSE date

\* the Article fetchFeed builds from item n of feed f
ArticleOf(f, n, date) == [source |-> RSS_FEEDS[f], n |-> n, pubDate |-> PubDateOf(date)]

\* what fetchFeed returns from its catch block; built: the articles mapped
\* before the error
OnFeedFailureKeep(built) == built
OnFeedFailure(built) == <<>>

\* fetchFeed(feedUrl) for a feed that answers with outcome
fetchFeed(f, outcome) ==
    LET built == [n \in 1..Len(outcome.items) |-> ArticleOf(f, n, outcome.items[n])]
    IN  IF outcome.fails THEN OnFeedFailure(built) ELSE built

\* feedResults.flat(), stopping at the first empty result
FlatUntilEmpty(results) ==
    LET cat[n \in 0..Len(results)] ==
            IF n = 0 THEN <<>>
            ELSE IF n > 1 /\ results[n - 1] = <<>> THEN cat[n - 1]
            ELSE cat[n - 1] \o results[n]
    IN  cat[Len(results)]
\* feedResults.flat()
Flat(results) ==
    LET cat[n \in 0..Len(results)] == IF n = 0 THEN <<>> ELSE cat[n - 1] \o results[n]
    IN  cat[Len(results)]

\* new Date(pubDate || 0).getTime() is NaN for a string that does not parse
IsNaN(pubDate) == pubDate = Unparseable

\* the comparator of the sort: getTime(b) - getTime(a); a NaN result counts
\* as +0 in Array.prototype.sort
Compare(a, b) ==
    IF IsNaN(a.pubDate) \/ IsNaN(b.pubDate) THEN 0 ELSE b.pubDate - a.pubDate

\* the comparator is a consistent comparison function for the array: being
\* "equal" (Compare = 0) is transitive
Consistent(arr) ==
    \A i, j, k \in 1..Len(arr) :
        (Compare(arr[i], arr[j]) = 0 /\ Compare(arr[j], arr[k]) = 0)
            => Compare(arr[i], arr[k]) = 0

\* the stable sort for a consistent comparator: insert every element after
\* the elements that do not sort after it
StableSort(arr) ==
    LET insert(sorted, x) ==
            LET pos == Cardinality({k \in 1..Len(sorted) : Compare(sorted[k], x) <= 0})
            IN  SubSeq(sorted, 1, pos) \o <<x>> \o SubSeq(sorted, pos + 1, Len(sorted))
        srt[n \in 0..Len(arr)] == IF n = 0 THEN <<>> ELSE insert(srt[n - 1], arr[n])
    IN  srt[Len(arr)]

\* every rearrangement of an array
Rearrangements(arr) ==
    LET n == Len(arr)
    IN  {[k \in 1..n |-> arr[p[k]]] :
            p \in {q \in [1..n -> 1..n] : \A i, j \in 1..n : q[i] = q[j] => i = j}}

\* Array.prototype.sort: stable for a consistent comparator; the order is
\* implementation-defined otherwise
SortOutcomes(arr) ==
    IF Consistent(arr) THEN {StableSort(arr)} ELSE Rearrangements(arr)

\* a feed that answers with the items dated `dates`
Answers(dates) == [fails |-> FALSE, items |-> dates]
\* a feed whose fetch fails, at the latest while its items are mapped
Fails(dates) == [fails |-> TRUE, items |-> dates]

\* what a feed may answer: any list of items with parseable dates, or a
\* failure
FeedOutcomes ==
    {Answers(d) : d \in Strings(ItemDates, MaxItems)}
        \cup {Fails(d) : d \in Strings(ItemDates, 1)}

\* the same with items whose date is missing or does not parse
DatedOutcomes ==
    {Answers(d) : d \in Strings(ItemDates \cup {Missing, Unparseable}, MaxDatedItems)}
        \cup {Fails(<<>>)}

TotalItems(world) ==
    LET sum[f \in 0..Len(RSS_FEEDS)] ==
            IF f = 0 THEN 0 ELSE sum[f - 1] + Len(world[f].items)
    IN  sum[Len(RSS_FEEDS)]

FeedsStart ==
    /\ feedsPc = "fetching"
    /\ settled = {}
    /\ feedResults = [f \in FeedIds |-> <<>>]
    /\ fetchedArticles = <<>>

FeedInit ==
    /\ feedWorld \in [FeedIds -> FeedOutcomes]
    /\ FeedsStart

FeedDatesInit ==
    /\ feedWorld \in {w \in [FeedIds -> DatedOutcomes] : TotalItems(w) <= MaxDatedTotal}
    /\ FeedsStart

FeedIdle ==
    /\ feedWorld = [f \in FeedIds |-> Fails(<<>>)]
    /\ feedsPc = "idle"
    /\ settled = {}
    /\ feedResults = [f \in FeedIds |-> <<>>]
    /\ fetchedArticles = <<>>

\* the fetchFeed promise of one feed settles (the feeds run in parallel, so
\* in any order); it always resolves
FeedSettles ==
    /\ feedsPc = "fetching"
    /\ \E f \in FeedIds \ settled :
          /\ feedResults' = [feedResults EXCEPT ![f] = fetchFeed(f, feedWorld[f])]
          /\ settled' = settled \cup {f}
    /\ UNCHANGED <<feedWorld, feedsPc, fetchedArticles>>
    /\ UNCHANGED notFeedVars

\* Promise.all resolves: flatten, sort, return
FeedsCombine ==
    /\ feedsPc = "fetching"
    /\ settled = FeedIds
    /\ \E sorted \in SortOutcomes(Flat(feedResults)) : fetchedArticles' = sorted
    /\ feedsPc' = "done"
    /\ UNCHANGED <<feedWorld, settled, feedResults>>
    /\ UNCHANGED notFeedVars

FeedNext ==
    \/ FeedSettles
    \/ FeedsCombine

(***************************************************************************)
(* deduplicateArticles applied to article lists, once and to its own       *)
(* result.                                                                 *)
(***************************************************************************)
MaxDedupLen == 3

\* headlines: a hyphenated one, the same words without punctuation, the same
\* words with a blank for the hyphen and a doubled blank, and another story
TitleHyphen == <<"G", "P", "T", "-", "5", " ", "L", "a", "u", "n", "c", "h", "e", "s", "!">>
TitlePlain == <<"g", "p", "t", " ", "5", " ", "l", "a", "u", "n", "c", "h", "e", "s">>
TitleSpaced == <<"G", "P", "T", " ", "5", " ", " ", "L", "a", "u", "n", "c", "h", "e", "s", "!">>
TitleOther == <<"L", "l", "a", "m", "a", " ", "4">>
DedupTitles == {TitleHyphen, TitlePlain, TitleSpaced, TitleOther}

\* article.link: '' when the feed item has no link
DedupLinks == {"", "x", "y"}

DedupArticles == [link : DedupLinks, title : DedupTitles]

DdInit ==
    /\ ddInput \in Strings(DedupArticles, MaxDedupLen)
    /\ ddPc = "call"
    /\ ddOnce = <<>>
    /\ ddTwice = <<>>

DdIdle ==
    /\ ddInput = <<>>
    /\ ddPc = "idle"
    /\ ddOnce = <<>>
    /\ ddTwice = <<>>

\* deduplicateArticles(articles)
DdCall ==
    /\ ddPc = "call"
    /\ ddOnce' = deduplicateArticles(ddInput)
    /\ ddPc' = "once"
    /\ UNCHANGED <<ddInput, ddTwice>>
    /\ UNCHANGED notDdVars

\* deduplicateArticles applied to the result of the first call
DdAgain ==
    /\ ddPc = "once"
    /\ ddTwice' = deduplicateArticles(ddOnce)
    /\ ddPc' = "twice"
    /\ UNCHANGED <<ddInput, ddOnce>>
    /\ UNCHANGED notDdVars

DdNext ==
    \/ DdCall
    \/ DdAgain

(***************************************************************************)
(* generateArticleId applied to two feed entries.                          *)
(***************************************************************************)
MaxLinkLen == 2

\* crypto.createHash('sha1').update(text).digest('hex').slice(0, 16): the
\* digest of a text, taken as different for different texts
Sha1Hex16(text) == <<"sha1">> \o text

\* generateArticleId hashing the title along with the link
generateArticleIdWithTitle(link, title, source) ==
    IF Len(link) > 0 /\ Len(trim(link)) > 0
    THEN Sha1Hex16(link \o title)
    ELSE Sha1Hex16(title \o source)
\* generateArticleId: the link when it has a non-blank character, else
\* title + source
generateArticleId(link, title, source) ==
    IF Len(link) > 0 /\ Len(trim(link)) > 0
    THEN Sha1Hex16(link)
    ELSE Sha1Hex16(title \o source)

\* links ('' and blank ones included), titles and source names of entries
IdLinks == Strings({" ", "u"}, MaxLinkLen)
IdTitles == {<<"s">>, <<"t">>}
IdSources == {<<"A">>, <<"B">>}
IdEntries == [link : IdLinks, title : IdTitles, source : IdSources]

IdInit ==
    /\ idItems \in [1..2 -> IdEntries]
    /\ idPc = "call"
    /\ idOf = <<>>

IdIdle ==
    /\ idItems = <<>>
    /\ idPc = "idle"
    /\ idOf = <<>>

\* the id of both entries, as fetchFeed computes it for every item
IdCall ==
    /\ idPc = "call"
    /\ idOf' = [k \in 1..2 |->
                  generateArticleId(idItems[k].link, idItems[k].title, idItems[k].source)]
    /\ idPc' = "done"
    /\ UNCHANGED idItems
    /\ UNCHANGED notIdVars

\* the same entries are normalized again (a later fetch of the same feed)
IdAgain ==
    /\ idPc = "done"
    /\ idOf' = [k \in 1..2 |->
                  generateArticleId(idItems[k].link, idItems[k].title, idItems[k].source)]
    /\ idPc' = "again"
    /\ UNCHANGED idItems
    /\ UNCHANGED notIdVars

IdNext ==
    \/ IdCall
    \/ IdAgain

(***************************************************************************)
(* cleanHtmlContent: the summary of a feed entry.                          *)
(***************************************************************************)
SummaryLimit == 500
MaxSumLen == 3
MaxOver == 2

\* the characters U+2014 and U+2013, one element of a text each
MDash == "U+2014"
NDash == "U+2013"

\* the three characters appended on truncation
Ellipsis == <<".", ".", ".">>

\* String.prototype.replace(/pat/g, rep) for a literal pattern that cannot
\* overlap itself and a replacement no longer than the pattern
ReplaceAll(s, pat, rep) ==
    LET matchAt(i) ==
            /\ i >= 1
            /\ i + Len(pat) - 1 <= Len(s)
            /\ \A k \in 1..Len(pat) : s[i + k - 1] = pat[k]
        starts(n) == {i \in Max(1, n - Len(pat) + 1)..n : matchAt(i)}
        out == [n \in 1..Len(s) |->
                  IF starts(n) = {} THEN s[n]
                  ELSE LET i == CHOOSE j \in starts(n) : TRUE
                       IN  IF n - i + 1 <= Len(rep) THEN rep[n - i + 1] ELSE ""]
    IN  SelectSeq(out, LAMBDA c : c # "")

\* the chain of entity replacements, in the order of the code
DecodeEntities(s) ==
    LET r1 == ReplaceAll(s,  <<"&","a","m","p",";">>, <<"&">>)
        r2 == ReplaceAll(r1, <<"&","l","t",";">>, <<"<">>)
        r3 == ReplaceAll(r2, <<"&","g","t",";">>, <<">">>)
        r4 == ReplaceAll(r3, <<"&","q","u","o","t",";">>, <<"\"">>)
        r5 == ReplaceAll(r4, <<"&","#","3","9",";">>, <<"'">>)
        r6 == ReplaceAll(r5, <<"&","n","b","s","p",";">>, <<" ">>)
        r7 == ReplaceAll(r6, <<"&","h","e","l","l","i","p",";">>, Ellipsis)
        r8 == ReplaceAll(r7, <<"&","m","d","a","s","h",";">>, <<MDash>>)
        r9 == ReplaceAll(r8, <<"&","n","d","a","s","h",";">>, <<NDash>>)
    IN  r9

\* replace(/\s+/g, ' '): every run of whitespace becomes one blank
SqueezeWhitespace(s) ==
    LET out == [n \in 1..Len(s) |->
                  IF ~IsSpace(s[n]) THEN s[n]
                  ELSE IF n = 1 \/ ~IsSpace(s[n - 1]) THEN " " ELSE ""]
    IN  SelectSeq(out, LAMBDA c : c # "")

\* if (cleanText.length > 500) cleanText = cleanText.substring(0, 500) + '...'
Truncate(s) ==
    IF Len(s) > SummaryLimit
    THEN SubSeq(s, 1, SummaryLimit) \o Ellipsis
    ELSE s

\* cleanHtmlContent after striptags
cleanHtmlContent(stripped) ==
    IF Len(stripped) = 0 THEN <<>>
    ELSE Truncate(trim(SqueezeWhitespace(DecodeEntities(stripped))))

\* a run of n letters
Letters(n) == [k \in 1..n |-> "a"]

\* contents around the limit: letters only, letters after leading blanks,
\* letters followed by an entity, letters separated by a double blank
LongContents ==
    UNION {{Letters(n),
            <<" ", " ">> \o Letters(n),
            Letters(n - 1) \o <<"&","a","m","p",";">>,
            Letters(n - 3) \o <<"&","h","e","l","l","i","p",";">>,
            Letters(n - 2) \o <<" ", " ">> \o Letters(1)}
           : n \in (SummaryLimit - 1)..(SummaryLimit + MaxOver)}

\* short contents, with entities, nested entities and whitespace
ShortContents ==
    Strings({"a", " ", "&"}, MaxSumLen)
        \cup {<<"a","&","a","m","p",";","b">>,
              <<"&","a","m","p",";","l","t",";">>,
              <<"&","n","b","s","p",";","&","n","b","s","p",";","a">>,
              <<"a","&","h","e","l","l","i","p",";">>,
              <<"&","q","u","o","t",";","a","&","#","3","9",";">>,
              <<"a","&","m","d","a","s","h",";","&","n","d","a","s","h",";">>,
              <<"&","g","t",";","\n","\t","a">>}

SumInit ==
    /\ sumStripped \in ShortContents \cup LongContents
    /\ sumPc = "call"
    /\ summary = <<>>

SumIdle ==
    /\ sumStripped = <<>>
    /\ sumPc = "idle"
    /\ summary = <<>>

\* summary: cleanHtmlContent(item.contentSnippet || ...)
SumCall ==
    /\ sumPc = "call"
    /\ summary' = cleanHtmlContent(sumStripped)
    /\ sumPc' = "done"
    /\ UNCHANGED sumStripped
    /\ UNCHANGED notSumVars

\* the summary is cleaned once more (a summary fed back as content)
SumAgain ==
    /\ sumPc = "done"
    /\ sumStripped' = summary
    /\ summary' = cleanHtmlContent(summary)
    /\ sumPc' = "again"
    /\ UNCHANGED notSumVars

SumNext ==
    \/ SumCall
    \/ SumAgain

(***************************************************************************)
(* getMP3Duration: duration of an audio buffer, by ffprobe or by size.     *)
(***************************************************************************)
MaxOutLen == 3

\* a JavaScript number as a fraction num / den with den a power of ten;
\* den = 0 stands for NaN
NaN == [num |-> 0, den |-> 0]
isNaN(x) == x.den = 0
Whole(n) == [num |-> n, den |-> 1]

IsDigit(c) == c \in Range(DigitChars)
DigitOf(c) == (CHOOSE d \in 1..10 : DigitChars[d] = c) - 1

RECURSIVE DigitsValue(_)
DigitsValue(ds) ==
    IF ds = <<>> THEN 0
    ELSE 10 * DigitsValue(SubSeq(ds, 1, Len(ds) - 1)) + DigitOf(ds[Len(ds)])

RECURSIVE Pow10(_)
Pow10(k) == IF k = 0 THEN 1 ELSE 10 * Pow10(k - 1)

\* the length of the longest run of digits of s that starts at index from
DigitRun(s, from) ==
    CHOOSE k \in 0..Max(0, Len(s) - from + 1) :
        /\ \A j \in from..(from + k - 1) : IsDigit(s[j])
        /\ from + k > Len(s) \/ ~IsDigit(s[from + k])

\* parseFloat of a text without exponent: optional sign, digits, optional
\* point and digits, the rest ignored; NaN when there is no digit
parseFloat(s) ==
    LET signed == Len(s) > 0 /\ s[1] \in {"+", "-"}
        first  == IF signed THEN 2 ELSE 1
        nInt   == DigitRun(s, first)
        dot    == first + nInt
        hasDot == dot <= Len(s) /\ s[dot] = "."
        nFrac  == IF hasDot THEN DigitRun(s, dot + 1) ELSE 0
        digits == SubSeq(s, first, first + nInt - 1)
                    \o SubSeq(s, dot + 1, dot + nFrac)
        sign   == IF signed /\ s[1] = "-" THEN -1 ELSE 1
    IN  IF nInt + nFrac = 0 THEN NaN
        ELSE [num |-> sign * DigitsValue(digits), den |-> Pow10(nFrac)]

\* Math.round((audioBuffer.length / 1024 / 320) * 60)
EstimateDuration(bytes) == Whole((2 * 60 * bytes + 1024 * 320) \div (2 * 1024 * 320))

\* buffer lengths: empty, tiny, around a rounding step, 8 KB, 640 KB
BufferSizes == {0, 1, 2730, 2731, 8192, 640 * 1024}

\* what ffprobe may write: a duration such as "1.5", "N" for N/A, nothing
Outputs == Strings({"1", "5", ".", "N", "\n"}, MaxOutLen)
ExitCodes == {0, 1}

DurInit ==
    /\ durBytes \in BufferSizes
    /\ durPc = "call"
    /\ durCode = 0
    /\ output = <<>>
    /\ durSettled = "pending"
    /\ durValue = NaN

DurIdle ==
    /\ durBytes = 0
    /\ durPc = "idle"
    /\ durCode = 0
    /\ output = <<>>
    /\ durSettled = "idle"
    /\ durValue = NaN

\* writeFileSync and spawn succeed: the handlers are installed
DurSpawn ==
    /\ durPc = "call"
    /\ durPc' = "probing"
    /\ UNCHANGED <<durBytes, durCode, output, durSettled, durValue>>
    /\ UNCHANGED notDurVars

\* writeFileSync or spawn throws: the catch block resolves with the estimate
DurCatch ==
    /\ durPc = "call"
    /\ durPc' = "threw"
    /\ durSettled' = "resolved"
    /\ durValue' = EstimateDuration(durBytes)
    /\ UNCHANGED <<durBytes, durCode, output>>
    /\ UNCHANGED notDurVars

\* the 'close' handler: ffprobe ended with an exit code after writing out
DurClose ==
    /\ durPc = "probing"
    /\ \E code \in ExitCodes, out \in Outputs :
          /\ durCode' = code
          /\ output' = out
          /\ IF code = 0
             THEN LET duration == parseFloat(trim(out))
                  IN  IF ~isNaN(duration)
                      THEN durSettled' = "resolved" /\ durValue' = duration
                      ELSE durSettled' = "rejected" /\ UNCHANGED durValue
             ELSE durSettled' = "resolved" /\ durValue' = EstimateDuration(durBytes)
    /\ durPc' = "closed"
    /\ UNCHANGED durBytes
    /\ UNCHANGED notDurVars

\* the 'error' handler: the process could not be spawned
DurError ==
    /\ durPc = "probing"
    /\ durPc' = "error"
    /\ durSettled' = "resolved"
    /\ durValue' = EstimateDuration(durBytes)
    /\ UNCHANGED <<durBytes, durCode, output>>
    /\ UNCHANGED notDurVars

\* 'close' after 'error': the handler runs, the promise is settled already
DurCloseLate ==
    /\ durPc = "error"
    /\ durPc' = "closedLate"
    /\ durCode' = 1
    /\ UNCHANGED <<durBytes, output, durSettled, durValue>>
    /\ UNCHANGED notDurVars

DurNext ==
    \/ DurSpawn
    \/ DurCatch
    \/ DurClose
    \/ DurError
    \/ DurCloseLate

(***************************************************************************)
(* dailyRunner: validation of the environment, the cron task, the --test   *)
(* run.  A run of sendDailyPodcastEmail is one step: it resolves or, after *)
(* its catch block has called logError, rejects.                           *)
(***************************************************************************)
MaxTicks == 2

requiredVars == {"EMAIL_USER", "EMAIL_PASS", "OPENAI_API_KEY", "DEEPGRAM_API_KEY"}

\* logError via sendDiscordEmbed: an embed is handed to Discord only when
\* Discord is configured
LogError(discord, notified) == IF discord THEN notified + 1 ELSE notified

RnInit ==
    /\ rnEnv \in SUBSET requiredVars
    /\ rnTest \in BOOLEAN
    /\ rnDiscord \in BOOLEAN
    /\ rnPc = "start"
    /\ rnTicks = 0
    /\ rnFailed = {}
    /\ rnNotified = 0
    /\ rnExit = -1

RnIdle ==
    /\ rnEnv = {}
    /\ rnTest = FALSE
    /\ rnDiscord = FALSE
    /\ rnPc = "idle"
    /\ rnTicks = 0
    /\ rnFailed = {}
    /\ rnNotified = 0
    /\ rnExit = -1

\* missingVars.length > 0: process.exit(1); else the task is scheduled and,
\* with --test, the test run starts at once
RnValidate ==
    /\ rnPc = "start"
    /\ IF rnEnv # requiredVars
       THEN rnPc' = "exited" /\ rnExit' = 1
       ELSE rnPc' = (IF rnTest THEN "testRun" ELSE "scheduled") /\ UNCHANGED rnExit
    /\ UNCHANGED <<rnEnv, rnTest, rnDiscord, rnTicks, rnFailed, rnNotified>>
    /\ UNCHANGED notRnVars

\* the --test run settles: try { await sendDailyPodcastEmail() } catch
\* { console.error }, then process.exit(0)
RnTestSettles ==
    /\ rnPc = "testRun"
    /\ \/ UNCHANGED <<rnFailed, rnNotified>>
       \/ /\ rnFailed' = rnFailed \cup {"test"}
          /\ rnNotified' = LogError(rnDiscord, rnNotified)
    /\ rnPc' = "exited"
    /\ rnExit' = 0
    /\ UNCHANGED <<rnEnv, rnTest, rnDiscord, rnTicks>>
    /\ UNCHANGED notRnVars

\* the cron expression fires
RnCronTick ==
    /\ rnPc = "scheduled"
    /\ rnTicks < MaxTicks
    /\ rnTicks' = rnTicks + 1
    /\ rnPc' = "cronRun"
    /\ UNCHANGED <<rnEnv, rnTest, rnDiscord, rnFailed, rnNotified, rnExit>>
    /\ UNCHANGED notRnVars

\* the scheduled run settles: logSuccess, or the catch block with logError;
\* the scheduler keeps running
RnCronSettles ==
    /\ rnPc = "cronRun"
    /\ \/ UNCHANGED <<rnFailed, rnNotified>>
       \/ /\ rnFailed' = rnFailed \cup {"cron"}
          /\ rnNotified' = LogError(rnDiscord, LogError(rnDiscord, rnNotified))
    /\ rnPc' = "scheduled"
    /\ UNCHANGED <<rnEnv, rnTest, rnDiscord, rnTicks, rnExit>>
    /\ UNCHANGED notRnVars

\* SIGINT or SIGTERM: task.stop(), process.exit(0)
RnSignal ==
    /\ rnPc = "scheduled"
    /\ rnPc' = "exited"
    /\ rnExit' = 0
    /\ UNCHANGED <<rnEnv, rnTest, rnDiscord, rnTicks, rnFailed, rnNotified>>
    /\ UNCHANGED notRnVars

RnNext ==
    \/ RnValidate
    \/ RnTestSettles
    \/ RnCronTick
    \/ RnCronSettles
    \/ RnSignal

(***************************************************************************)
(* logger: initializeDiscord, getDiscordClient, setupSlashCommandHandlers. *)
(* DISCORD_BOT_TOKEN is set.  The calls run on one thread: a step is the   *)
(* code between two awaits.                                                *)
(***************************************************************************)
MaxLogCalls == 1

\* initializeDiscordLogger at the import of the module and in dailyRunner
ImportCall == <<"import", 0>>
RunnerCall == <<"runner", 0>>
LoggerCalls == {ImportCall, RunnerCall}
\* getDiscordClient, called by sendDiscordEmbed for a log call
LogCalls == {<<"log", k>> : k \in 1..MaxLogCalls}
DcCallers == LoggerCalls \cup LogCalls

\* setupSlashCommandHandlers, which initializeDiscordLogger runs as soon as
\* its initializeDiscord has returned: one more interactionCreate handler on
\* the module's client, if there is one; getDiscordClient attaches nothing
SetupHandlers(c, client, clients) ==
    IF c \in LoggerCalls /\ client # 0
    THEN [clients EXCEPT ![client].handlers = @ + 1]
    ELSE clients

DcInit ==
    /\ discordClient = 0
    /\ isInitialized = FALSE
    /\ dcClients = <<>>
    /\ \E entry \in {"idle", "none"} :
          dcCalls = [c \in DcCallers |->
                        [pc |-> IF c = RunnerCall THEN entry ELSE "idle",
                         mine |-> 0, waitOn |-> 0]]

DcIdle ==
    /\ discordClient = 0
    /\ isInitialized = FALSE
    /\ dcClients = <<>>
    /\ dcCalls = <<>>

\* the call of dailyRunner follows the import of the logger with no await in
\* between: the call of the import is then at its await of login
AtImportLogin ==
    /\ dcCalls[ImportCall].pc = "login"
    /\ dcClients[dcCalls[ImportCall].mine].login = "pending"
    /\ \A c \in LogCalls : dcCalls[c].pc = "idle"

\* a call enters initializeDiscord: return when the flag is set, else
\* discordClient = new Client(...) and login is started.  Log calls are made
\* by the code that runs after the start of the entry point (a dailyRunner
\* that has called initializeDiscordLogger, or a script that never calls it)
DcStart(c) ==
    /\ dcCalls[c].pc = "idle"
    /\ c = RunnerCall => AtImportLogin
    /\ c \in LogCalls => dcCalls[ImportCall].pc # "idle" /\ dcCalls[RunnerCall].pc # "idle"
    /\ IF isInitialized
       THEN /\ dcCalls' = [dcCalls EXCEPT ![c].pc = "done"]
            /\ dcClients' = SetupHandlers(c, discordClient, dcClients)
            /\ UNCHANGED discordClient
       ELSE /\ dcClients' = Append(dcClients,
                                   [login |-> "pending", ready |-> FALSE, handlers |-> 0])
            /\ discordClient' = Len(dcClients) + 1
            /\ dcCalls' = [dcCalls EXCEPT ![c] =
                              [pc |-> "login", mine |-> Len(dcClients) + 1, waitOn |-> 0]]
    /\ UNCHANGED isInitialized
    /\ UNCHANGED notDcVars

\* await discordClient.login(...) rejects: the catch block sets
\* discordClient = null
DcLoginFails(c) ==
    /\ dcCalls[c].pc = "login"
    /\ dcClients' = [dcClients EXCEPT ![dcCalls[c].mine].login = "failed"]
    /\ discordClient' = 0
    /\ dcCalls' = [dcCalls EXCEPT ![c].pc = "done"]
    /\ UNCHANGED isInitialized
    /\ UNCHANGED notDcVars

\* await discordClient.login(...) resolves: the ready promise looks at the
\* module's discordClient: null throws into the catch block, else the call
\* waits until that client is ready
DcLogin(c) ==
    /\ dcCalls[c].pc = "login"
    /\ dcClients' = [dcClients EXCEPT ![dcCalls[c].mine].login = "ok"]
    /\ dcCalls' = [dcCalls EXCEPT ![c] =
          IF discordClient = 0
          THEN [@ EXCEPT !.pc = "done"]
          ELSE [@ EXCEPT !.pc = "ready", !.waitOn = discordClient]]
    /\ UNCHANGED <<discordClient, isInitialized>>
    /\ UNCHANGED notDcVars

\* a logged-in client emits 'ready'
DcReady(c) ==
    /\ dcCalls[c].mine # 0
    /\ dcClients[dcCalls[c].mine].login = "ok"
    /\ ~dcClients[dcCalls[c].mine].ready
    /\ dcClients' = [dcClients EXCEPT ![dcCalls[c].mine].ready = TRUE]
    /\ UNCHANGED <<discordClient, isInitialized, dcCalls>>
    /\ UNCHANGED notDcVars

\* the ready promise resolves: registerSlashCommands is awaited
DcAwaitReady(c) ==
    /\ dcCalls[c].pc = "ready"
    /\ dcClients[dcCalls[c].waitOn].ready
    /\ dcCalls' = [dcCalls EXCEPT ![c].pc = "register"]
    /\ UNCHANGED <<discordClient, isInitialized, dcClients>>
    /\ UNCHANGED notDcVars

\* registerSlashCommands returns (it catches its own errors):
\* isInitialized = true, and initializeDiscordLogger sets up the handlers
DcRegister(c) ==
    /\ dcCalls[c].pc = "register"
    /\ isInitialized' = TRUE
    /\ dcClients' = SetupHandlers(c, discordClient, dcClients)
    /\ dcCalls' = [dcCalls EXCEPT ![c].pc = "done"]
    /\ UNCHANGED discordClient
    /\ UNCHANGED notDcVars

DcNext ==
    \/ \E c \in DcCallers : DcStart(c)
    \/ \E c \in DcCallers : DcLoginFails(c)
    \/ \E c \in DcCallers : DcLogin(c)
    \/ \E c \in DcCallers : DcReady(c)
    \/ \E c \in DcCallers : DcAwaitReady(c)
    \/ \E c \in DcCallers : DcRegister(c)

CurIdle ==
    /\ articles = <<>>
    /\ apiKey = FALSE
    /\ maxCount = 0
    /\ curPc = "idle"
    /\ batchIndex = 0
    /\ allSelectedIds = <<>>
    /\ oracleLog = <<>>
    /\ aiArticles = <<>>
    /\ uniqueArticles = <<>>
    /\ selectedIds = <<>>
    /\ curError = ""

(***************************************************************************)
(* Specifications, one per component.                                      *)
(***************************************************************************)
CuratorInit ==
    /\ CurInit
    /\ ChunkIdle
    /\ PlIdle
    /\ TtsIdle
    /\ FeedIdle
    /\ DdIdle
    /\ IdIdle
    /\ SumIdle
    /\ DurIdle
    /\ RnIdle
    /\ DcIdle

ChunkerInit ==
    /\ ChunkInit
    /\ CurIdle
    /\ PlIdle
    /\ TtsIdle
    /\ FeedIdle
    /\ DdIdle
    /\ IdIdle
    /\ SumIdle
    /\ DurIdle
    /\ RnIdle
    /\ DcIdle

CutsInit ==
    /\ ChunkCutsInit
    /\ CurIdle
    /\ PlIdle
    /\ TtsIdle
    /\ FeedIdle
    /\ DdIdle
    /\ IdIdle
    /\ SumIdle
    /\ DurIdle
    /\ RnIdle
    /\ DcIdle

LiveInit ==
    /\ ChunkLiveInit
    /\ CurIdle
    /\ PlIdle
    /\ TtsIdle
    /\ FeedIdle
    /\ DdIdle
    /\ IdIdle
    /\ SumIdle
    /\ DurIdle
    /\ RnIdle
    /\ DcIdle

PipelineInit ==
    /\ PlInit
    /\ CurIdle
    /\ ChunkIdle
    /\ TtsIdle
    /\ FeedIdle
    /\ DdIdle
    /\ IdIdle
    /\ SumIdle
    /\ DurIdle
    /\ RnIdle
    /\ DcIdle

SpeechInit ==
    /\ TtsInit
    /\ CurIdle
    /\ ChunkIdle
    /\ PlIdle
    /\ FeedIdle
    /\ DdIdle
    /\ IdIdle
    /\ SumIdle
    /\ DurIdle
    /\ RnIdle
    /\ DcIdle

FeedsInit ==
    /\ FeedInit
    /\ CurIdle
    /\ ChunkIdle
    /\ PlIdle
    /\ TtsIdle
    /\ DdIdle
    /\ IdIdle
    /\ SumIdle
    /\ DurIdle
    /\ RnIdle
    /\ DcIdle

FeedsDatedInit ==
    /\ FeedDatesInit
    /\ CurIdle
    /\ ChunkIdle
    /\ PlIdle
    /\ TtsIdle
    /\ DdIdle
    /\ IdIdle
    /\ SumIdle
    /\ DurIdle
    /\ RnIdle
    /\ DcIdle

DedupInit ==
    /\ DdInit
    /\ CurIdle
    /\ ChunkIdle
    /\ PlIdle
    /\ TtsIdle
    /\ FeedIdle
    /\ IdIdle
    /\ SumIdle
    /\ DurIdle
    /\ RnIdle
    /\ DcIdle

ArticleIdInit ==
    /\ IdInit
    /\ CurIdle
    /\ ChunkIdle
    /\ PlIdle
    /\ TtsIdle
    /\ FeedIdle
    /\ DdIdle
    /\ SumIdle
    /\ DurIdle
    /\ RnIdle
    /\ DcIdle

SummaryInit ==
    /\ SumInit
    /\ CurIdle
    /\ ChunkIdle
    /\ PlIdle
    /\ TtsIdle
    /\ FeedIdle
    /\ DdIdle
    /\ IdIdle
    /\ DurIdle
    /\ RnIdle
    /\ DcIdle

DurationInit ==
    /\ DurInit
    /\ CurIdle
    /\ ChunkIdle
    /\ PlIdle
    /\ TtsIdle
    /\ FeedIdle
    /\ DdIdle
    /\ IdIdle
    /\ SumIdle
    /\ RnIdle
    /\ DcIdle

RunnerInit ==
    /\ RnInit
    /\ CurIdle
    /\ ChunkIdle
    /\ PlIdle
    /\ TtsIdle
    /\ FeedIdle
    /\ DdIdle
    /\ IdIdle
    /\ SumIdle
    /\ DurIdle
    /\ DcIdle

DiscordInit ==
    /\ DcInit
    /\ CurIdle
    /\ ChunkIdle
    /\ PlIdle
    /\ TtsIdle
    /\ FeedIdle
    /\ DdIdle
    /\ IdIdle
    /\ SumIdle
    /\ DurIdle
    /\ RnIdle

SpecCurator == CuratorInit /\ [][CurNext]_vars

SpecChunk == ChunkerInit /\ [][ChunkNext]_vars

SpecChunkCuts == CutsInit /\ [][ChunkNext]_vars

\* the loop of chunkText runs on: nothing suspends it
SpecChunkLive == LiveInit /\ [][ChunkNext]_vars /\ WF_vars(ChunkNext)

SpecPipeline == PipelineInit /\ [][PlNext]_vars

SpecTTS == SpeechInit /\ [][TtsNext]_vars

SpecFeeds == FeedsInit /\ [][FeedNext]_vars

SpecFeedDates == FeedsDatedInit /\ [][FeedNext]_vars

SpecDedup == DedupInit /\ [][DdNext]_vars

SpecArticleId == ArticleIdInit /\ [][IdNext]_vars

SpecSummary == SummaryInit /\ [][SumNext]_vars

SpecDuration == DurationInit /\ [][DurNext]_vars

SpecRunner == RunnerInit /\ [][RnNext]_vars

SpecDiscord == DiscordInit /\ [][DcNext]_vars

(***************************************************************************)
(* Claims about the article curator.                                       *)
(***************************************************************************)
FilterLog == SelectSeq(oracleLog, LAMBDA e : e.call = "filter")
RankIssued == \E k \in 1..Len(oracleLog) : oracleLog[k].call = "rank"
PassAFinished == curPc \in {"filtered", "awaitRank", "done", "failed"}

\* C1: the selectedIds that Pass B returns are a subset of the ids of the
\* candidate articles passed into Pass B in the same run; an id that is not
\* among the candidates is never returned.
C1_SelectedIdsAmongCandidates ==
    curPc = "done" => Range(selectedIds) \subseteq Range(Ids(uniqueArticles))

\* C6: with the oracle available, for every number of input articles, an
\* oracle error or malformed response for a batch does not abort curation;
\* selectTopArticles fails during Pass A only when the whole pass yields zero
\* relevant articles, that is, only with the "No AI-related articles" error
\* raised by its own zero check.
C6_PassABatchFailureNotFatal ==
    (apiKey /\ curPc = "failed" /\ ~RankIssued) => curError = NoRelevantError

\* C7: when a Pass A batch fails, none of the articles of that batch appears
\* in the relevance-filtered set, whatever the other batches' responses name
\* and whatever ids the other articles carry.
C7_FailedBatchArticlesExcluded ==
    PassAFinished =>
        \A k \in 1..Len(oracleLog) :
            LET e == oracleLog[k]
            IN  (e.call = "filter" /\ e.ev = "complete" /\ ~e.ok) =>
                    \A p \in (e.at + 1)..Min(e.at + CHUNK_SIZE, Len(articles)) :
                        ~Includes(aiArticles, articles[p])

\* C8: for more than CHUNK_SIZE articles with the oracle available, Pass A
\* issues one oracle call per consecutive batch of at most CHUNK_SIZE articles
\* in input order, each call only after the previous one has completed
\* (successfully or not), no batch twice; ceil(N / CHUNK_SIZE) calls in all.
C8_PassACallsOncePerBatchInOrder ==
    (apiKey /\ Len(articles) > CHUNK_SIZE) =>
        LET f == FilterLog
        IN  /\ \A k \in 1..Len(f) :
                  /\ f[k].ev = IF k % 2 = 1 THEN "issue" ELSE "complete"
                  /\ f[k].at = ((k - 1) \div 2) * CHUNK_SIZE
                  /\ f[k].at < Len(articles)
                  /\ f[k].ev = "issue" =>
                        /\ f[k].ids = Ids(Slice(articles, f[k].at, f[k].at + CHUNK_SIZE))
                        /\ Len(f[k].ids) <= CHUNK_SIZE
            /\ PassAFinished => Len(f) = 2 * CeilDiv(Len(articles), CHUNK_SIZE)

\* C8 witness: the 120-article scenario has finished Pass A with exactly two
\* calls, the first of which failed.
C8_Witness ==
    /\ apiKey
    /\ Len(articles) = CHUNK_SIZE + CHUNK_SIZE \div 5
    /\ curPc = "filtered"
    /\ Len(FilterLog) = 4
    /\ ~FilterLog[2].ok
    /\ FilterLog[4].ok

(***************************************************************************)
(* Claims about chunkText.                                                 *)
(***************************************************************************)
\* the concatenation of a sequence of strings
Concat(strs) ==
    LET cat[n \in 0..Len(strs)] == IF n = 0 THEN <<>> ELSE cat[n - 1] \o strs[n]
    IN  cat[Len(strs)]

\* a string with all its whitespace deleted
Squeeze(s) == SelectSeq(s, LAMBDA c : ~IsSpace(c))

\* C3: for every text longer than maxLength, chunkText is deterministic (the
\* loop's chunks are the function's value), the slices it cuts are contiguous,
\* non-overlapping and cover the whole text, every chunk is its slice
\* trimmed, and the chunks concatenated in order equal the text once all
\* whitespace is deleted from both sides.
C3_ChunksReconstructText ==
    (Len(ckText) > ckMax /\ ckPc \in {"loop", "done"}) =>
        /\ Len(chunks) = Len(cuts)
        /\ \A k \in 1..Len(cuts) :
              /\ cuts[k][1] = IF k = 1 THEN 0 ELSE cuts[k - 1][2]
              /\ cuts[k][1] < cuts[k][2]
              /\ cuts[k][1] < Len(ckText)
              /\ chunks[k] = trim(Slice(ckText, cuts[k][1], cuts[k][2]))
        /\ currentIndex = IF cuts = <<>> THEN 0 ELSE cuts[Len(cuts)][2]
        /\ Squeeze(Concat(chunks)) = Squeeze(Slice(ckText, 0, currentIndex))
        /\ ckPc = "done" =>
              /\ currentIndex >= Len(ckText)
              /\ Squeeze(Concat(chunks)) = Squeeze(ckText)
              /\ chunks = chunkText(ckText, ckMax)

\* C3 witness: a text longer than maxLength has been cut into at least two
\* chunks, one of them at a sentence terminator, and trimming removed
\* whitespace at a cut.
C3_Witness ==
    /\ ckPc = "done"
    /\ Len(ckText) > ckMax
    /\ Len(chunks) >= 2
    /\ \E k \in 1..Len(cuts) : cuts[k][2] < Len(ckText) /\ cuts[k][2] # cuts[k][1] + ckMax
    /\ Concat(chunks) # ckText

(***************************************************************************)
(* Claims about the pipeline run.                                          *)
(***************************************************************************)
\* C2: the stages of a run execute in the order feed normalizer, article
\* curator, script synthesizer, speech synthesis, duration estimator,
\* delivery; the script synthesizer is invoked only after the curator and
\* only with articles that the curator selected.
C2_ScriptFromCuratedArticles ==
    \A k \in 1..Len(plCalls) :
        plCalls[k].stage = "generatePodcastScript" =>
            /\ k > 1
            /\ plCalls[k - 1].stage = "selectTopArticles"
            /\ Range(plCalls[k].input) \subseteq Range(plCalls[k - 1].input)

\* the errors raised for a missing credential
MissingKeyErrors ==
    {"Missing required environment variable: OPENAI_API_KEY",
     "Missing required environment variable: DEEPGRAM_API_KEY",
     "Missing required environment variables: EMAIL_USER, EMAIL_PASS"}

\* C21: when a required credential is missing, a run of the pipeline fails
\* before any network activity: no stage has run before the one that found
\* the credential missing, and no stage runs twice.
C21_MissingKeyFailsBeforeNetwork ==
    plError \in MissingKeyErrors => Len(plCalls) <= 1

\* C24: when getMP3Duration rejects, the caller goes on and uses as duration
\* the byte-size estimate round((audio bytes / 1024) / 320 * 60).
C24_CallerFallbackIsSizeEstimate ==
    "duration" \in plMishaps =>
        /\ plPc \notin {"fetch", "script", "synth", "duration"}
        /\ actualDuration = EstimateDuration(audioBytes).num

\* the errors of feed fetching, script generation and speech synthesis
StageErrors ==
    {"Missing required environment variable: OPENAI_API_KEY",
     "No articles provided for podcast generation",
     "script oracle failed",
     "Missing required environment variable: DEEPGRAM_API_KEY",
     "speech synthesis failed"}

\* the position of a stage's call in plCalls, 0 if it was not called
CallIndex(stage) ==
    IF \E k \in 1..Len(plCalls) : plCalls[k].stage = stage
    THEN CHOOSE k \in 1..Len(plCalls) : plCalls[k].stage = stage
    ELSE 0

\* C29: in one run sendMail is invoked at most once, and only after feed
\* fetching, script generation and speech synthesis have completed
\* successfully, in that order; when one of these stages failed no mail is
\* sent; a failed duration probe, bullet-point generation or Discord
\* notification is never the error a run ends with.
C29_OneMailAfterAllStages ==
    /\ mailsSent <= 1
    /\ \A i, j \in 1..Len(plCalls) : plCalls[i].stage = plCalls[j].stage => i = j
    /\ mailsSent = 1 =>
          /\ 0 < CallIndex("fetchAllFeeds")
          /\ CallIndex("fetchAllFeeds") < CallIndex("generatePodcastScript")
          /\ CallIndex("generatePodcastScript") < CallIndex("synthesizePodcast")
          /\ CallIndex("synthesizePodcast") < CallIndex("sendMail")
          /\ CallIndex("sendMail") = Len(plCalls)
          /\ scriptLength > 0
          /\ audioBytes > 0
          /\ plError \notin StageErrors
    /\ plError \in StageErrors => mailsSent = 0
    /\ plPc \in {"catch", "rejected"} =>
          plError \in StageErrors \cup MissingKeyErrors
                        \cup {"cannot write podcast.txt", "SMTP verify failed", "sendMail failed"}

\* C29 witness: the mail was sent and the run resolved although the duration
\* probe, the bullet-point generation and a Discord notification had failed.
C29_Witness ==
    /\ plPc = "resolved"
    /\ mailsSent = 1
    /\ plMishaps = {"duration", "bulletpoints", "discord"}

(***************************************************************************)
(* Claims about synthesizePodcast.                                         *)
(***************************************************************************)
\* C4: the chunks are requested from the speech oracle in chunk order, one
\* request per chunk; the request for chunk i+1 is issued only after the
\* stream of chunk i has been read to its end; the result (the returned
\* buffer, or the file written) is exactly the bytes the streams delivered,
\* concatenated in chunk order.
C4_SequentialRequestsOrderedConcat ==
    /\ Len(served) = Len(ttsRequests)
    /\ \A k \in 1..Len(ttsRequests) :
          /\ ttsRequests[k].chunk = k
          /\ k <= Len(TextChunks[ttsScript])
          /\ ttsRequests[k].text = Len(TextChunks[ttsScript][k])
          /\ k < Len(ttsRequests) => served[k].done
    /\ ttsPc = "resolved" =>
          /\ Len(ttsRequests) = Len(TextChunks[ttsScript])
          /\ \A k \in 1..Len(served) : served[k].done
          /\ finalAudioBuffer = Concat([k \in 1..Len(served) |-> served[k].bytes])
          /\ finalAudioBuffer = [b \in 1..(nextByte - 1) |-> b]
          /\ ttsVariant = "file" => fileWritten /\ fileBytes = finalAudioBuffer

\* C4 witness: a script of three chunks has been synthesized; one stream
\* came in two pieces, another delivered nothing.
C4_Witness ==
    /\ ttsPc = "resolved"
    /\ Len(ttsRequests) = 3
    /\ Len(served[1].bytes) = 4
    /\ served[2].bytes = <<>>
    /\ Len(served[3].bytes) = 2
    /\ Len(finalAudioBuffer) = 6

\* C5: when the request, the stream or a read of a chunk fails,
\* synthesizePodcast rejects: it is in its catch block or has rethrown, no
\* buffer has been combined or returned, no output file has been written,
\* and the failed chunk is the last one that was requested.
C5_ChunkFailureAbortsAll ==
    ttsError \in ChunkErrors =>
        /\ ttsPc \in {"catch", "rejected"}
        /\ finalAudioBuffer = <<>>
        /\ ~fileWritten
        /\ fileBytes = <<>>
        /\ Len(ttsRequests) = ttsI + 1
        /\ ~served[Len(served)].done

\* C5 witness: the second of three chunks failed in the middle of its
\* stream, after the first chunk's audio had been read completely; the run
\* has rejected.
C5_Witness ==
    /\ ttsPc = "rejected"
    /\ ttsVariant = "file"
    /\ ttsError = "reader.read rejected"
    /\ Len(TextChunks[ttsScript]) = 3
    /\ Len(ttsRequests) = 2
    /\ Len(allAudioChunks) = 1
    /\ allAudioChunks[1] # <<>>
    /\ served[2].bytes # <<>>

(***************************************************************************)
(* Claims about fetchAllFeeds.                                             *)
(***************************************************************************)
Succeeded == {f \in FeedIds : ~feedWorld[f].fails}
FeedOf(article) == CHOOSE f \in FeedIds : RSS_FEEDS[f] = article.source

\* C9: whichever feeds fail, fetchAllFeeds resolves, and its result holds
\* every article of every feed that succeeded exactly once and nothing else:
\* nothing of a failed feed, nothing twice, nothing lost.
C9_UnionOfSucceededFeeds ==
    /\ feedsPc \in {"fetching", "done"}
    /\ feedsPc = "done" =>
          /\ \A f \in Succeeded : \A n \in 1..Len(feedWorld[f].items) :
                Cardinality({i \in 1..Len(fetchedArticles) :
                                /\ fetchedArticles[i].source = RSS_FEEDS[f]
                                /\ fetchedArticles[i].n = n}) = 1
          /\ \A i \in 1..Len(fetchedArticles) :
                /\ FeedOf(fetchedArticles[i]) \in Succeeded
                /\ fetchedArticles[i].n <= Len(feedWorld[FeedOf(fetchedArticles[i])].items)
          /\ Len(fetchedArticles) = TotalItems([f \in FeedIds |->
                IF f \in Succeeded THEN feedWorld[f] ELSE Answers(<<>>)])

\* C9 witness: feed B fails with an article already mapped, feeds A and C
\* return 2 and 3 articles, and the result has 5 articles.
C9_Witness ==
    /\ feedsPc = "done"
    /\ Succeeded = {1, 3}
    /\ Len(feedWorld[1].items) = 2
    /\ Len(feedWorld[2].items) = 1
    /\ Len(feedWorld[3].items) = 3
    /\ Len(fetchedArticles) = 5

\* the date an article is to be ordered by: its publication date, or the
\* fetch time when the date is missing or does not parse
OrderingDate(article) ==
    IF article.pubDate = Unparseable THEN FetchTime ELSE article.pubDate

\* C10: the result is sorted by publication date, newest first, articles
\* with equal dates in feed order, where an article whose date is missing or
\* unparseable is ordered as if its date were the fetch time.
C10_NewestFirstWithNowFallback ==
    feedsPc = "done" =>
        \A i, j \in 1..Len(fetchedArticles) :
            i < j =>
                LET a == fetchedArticles[i]
                    b == fetchedArticles[j]
                IN  /\ OrderingDate(a) >= OrderingDate(b)
                    /\ OrderingDate(a) = OrderingDate(b) =>
                          \/ FeedOf(a) < FeedOf(b)
                          \/ FeedOf(a) = FeedOf(b) /\ a.n < b.n

(***************************************************************************)
(* Claims about deduplicateArticles and normalizeTitleForDedup.            *)
(***************************************************************************)
\* C11: deduplicateArticles is idempotent: applied to its own result it
\* returns that result, the same articles in the same order.
C11_DedupIdempotent ==
    ddPc = "twice" => ddTwice = ddOnce

\* C11 witness: a list from which the first call removed an article has been
\* deduplicated a second time.
C11_Witness ==
    /\ ddPc = "twice"
    /\ Len(ddInput) = 3
    /\ Len(ddOnce) = 2

\* two input articles with different links and the given titles, in any
\* order
TitlePair(t1, t2) ==
    /\ Len(ddInput) = 2
    /\ ddInput[1].link # ddInput[2].link
    /\ {ddInput[1].title, ddInput[2].title} = {t1, t2}

\* C12: "GPT-5 Launches!" and "gpt 5 launches" get the same dedup key, so of
\* two articles with different links that carry these titles only the first
\* is kept.
C12_HyphenTitleSameKey ==
    (ddPc = "once" /\ TitlePair(TitleHyphen, TitlePlain)) =>
        /\ normalizeTitleForDedup(TitleHyphen) = normalizeTitleForDedup(TitlePlain)
        /\ ddOnce = <<ddInput[1]>>

\* C12 amended: "GPT 5  Launches!" and "gpt 5 launches" get the same dedup
\* key, "gpt 5 launches", so of two articles with different links that carry
\* these titles only the first is kept; the hyphen of "GPT-5 Launches!" is
\* deleted, not replaced by a blank, so its key is "gpt5 launches" and it is
\* kept next to "gpt 5 launches".
C12_SpacedTitleSameKey ==
    /\ normalizeTitleForDedup(TitleSpaced) = TitlePlain
    /\ normalizeTitleForDedup(TitlePlain) = TitlePlain
    /\ normalizeTitleForDedup(TitleHyphen) = <<"g", "p", "t", "5", " ", "l", "a", "u", "n", "c", "h", "e", "s">>
    /\ (ddPc = "once" /\ TitlePair(TitleSpaced, TitlePlain)) => ddOnce = <<ddInput[1]>>
    /\ (ddPc = "once" /\ TitlePair(TitleHyphen, TitlePlain)) => ddOnce = ddInput

\* C12 witness: the two-article list with the spaced and the plain headline
\* has been deduplicated to its first article.
C12_Witness ==
    /\ ddPc = "once"
    /\ TitlePair(TitleSpaced, TitlePlain)
    /\ ddInput[1].title = TitleSpaced
    /\ Len(ddOnce) = 1

\* C13: the result is a subsequence of the input (the articles kept are in
\* their input order), the first input article is always kept, and no two
\* kept articles have the same link or the same normalized title.
C13_DedupSubsequenceUniqueKeys ==
    ddPc \in {"once", "twice"} =>
        /\ \E keep \in SUBSET (1..Len(ddInput)) :
              /\ Cardinality(keep) = Len(ddOnce)
              /\ \A k \in 1..Len(ddOnce) :
                    ddOnce[k] = ddInput[CHOOSE i \in keep :
                                    Cardinality({j \in keep : j < i}) = k - 1]
        /\ Len(ddInput) > 0 => (Len(ddOnce) > 0 /\ ddOnce[1] = ddInput[1])
        /\ \A i, j \in 1..Len(ddOnce) :
              i # j =>
                  /\ ddOnce[i].link # ddOnce[j].link
                  /\ normalizeTitleForDedup(ddOnce[i].title)
                        # normalizeTitleForDedup(ddOnce[j].title)

\* C13 witness: from three articles the one with a link seen before was
\* removed, the two kept have different links and different title keys.
C13_Witness ==
    /\ ddPc = "once"
    /\ Len(ddInput) = 3
    /\ ddInput[2].link = ddInput[1].link
    /\ ddInput[2].title # ddInput[1].title
    /\ ddOnce = <<ddInput[1], ddInput[3]>>

\* the two articles have the same link, or the same normalized title
SameLinkOrTitle(a, b) ==
    \/ a.link = b.link
    \/ normalizeTitleForDedup(a.title) = normalizeTitleForDedup(b.title)

\* C26: every article that deduplicateArticles removes is a duplicate of an
\* article that survives: the output has an article with the same link or
\* the same normalized title.
C26_RemovedHasSurvivingDuplicate ==
    ddPc \in {"once", "twice"} =>
        \A k \in 1..Len(ddInput) :
            \E j \in 1..Len(ddOnce) : SameLinkOrTitle(ddInput[k], ddOnce[j])

\* C26 amended: for every removed article the output has an article with
\* the same link or the same normalized title, or the removed article has
\* the link of an input article whose normalized title is that of an article
\* in the output.
C26_RemovedHasDuplicateChain ==
    ddPc \in {"once", "twice"} =>
        \A k \in 1..Len(ddInput) :
            \E j \in 1..Len(ddOnce) :
                \/ SameLinkOrTitle(ddInput[k], ddOnce[j])
                \/ \E i \in 1..Len(ddInput) :
                      /\ ddInput[i].link = ddInput[k].link
                      /\ normalizeTitleForDedup(ddInput[i].title)
                            = normalizeTitleForDedup(ddOnce[j].title)

\* C26 witness: of three articles only the first is kept; the third shares
\* neither link nor title with it, only the link of the second, whose title
\* is the first's.
C26_Witness ==
    /\ ddPc = "once"
    /\ Len(ddInput) = 3
    /\ ddOnce = <<ddInput[1]>>
    /\ ~SameLinkOrTitle(ddInput[3], ddInput[1])
    /\ ddInput[3].link = ddInput[2].link
    /\ normalizeTitleForDedup(ddInput[2].title) = normalizeTitleForDedup(ddInput[1].title)

(***************************************************************************)
(* More claims about the article curator.                                  *)
(***************************************************************************)
\* the array of ids the ranking oracle answered with
RankAnswer == oracleLog[Len(oracleLog)].answer

\* C16: for every answer of the ranking oracle and every maxCount >= 0, the
\* selectedIds that Pass B returns has at most maxCount entries and is the
\* prefix of the oracle's array: its first maxCount entries (all of them when
\* there are fewer), in the oracle's order.
C16_SelectedIdsPrefixOfAnswer ==
    curPc = "done" =>
        /\ Len(selectedIds) <= maxCount
        /\ Len(selectedIds) = Min(maxCount, Len(RankAnswer))
        /\ \A k \in 1..Len(selectedIds) : selectedIds[k] = RankAnswer[k]

\* C16 witness: the oracle named two ids, maxCount is 1, and the first of
\* the two was returned.
C16_Witness ==
    /\ curPc = "done"
    /\ maxCount = 1
    /\ Len(RankAnswer) = 2
    /\ RankAnswer[1] # RankAnswer[2]
    /\ selectedIds = <<RankAnswer[1]>>

(***************************************************************************)
(* More claims about chunkText.                                            *)
(***************************************************************************)
\* C14: for every text no longer than maxLength, blanks at its ends
\* included, chunkText returns exactly one chunk, and that chunk is the text
\* with leading and trailing whitespace trimmed.
C14_ShortTextOneTrimmedChunk ==
    (ckPc = "done" /\ Len(ckText) <= ckMax) => chunks = <<trim(ckText)>>

\* C15: every chunk chunkText returns has at most maxLength characters.
C15_ChunksWithinMaxLength ==
    ckPc = "done" => \A k \in 1..Len(chunks) : Len(chunks[k]) <= ckMax

\* the cuts made with the greedy end before the end of the text
NonFinalCuts == {k \in 1..Len(cuts) : cuts[k][1] + ckMax < Len(ckText)}

\* the index of the nearest '.', '?' or '!' at or before index g; -1 if none
BackwardBreak(g) ==
    LET hits == {k \in 0..Min(g, Len(ckText) - 1) : ckText[k + 1] \in {".", "?", "!"}}
    IN  IF hits = {} THEN -1 ELSE CHOOSE k \in hits : \A j \in hits : j <= k

\* C23: for every non-final cut with cursor c and greedy cutpoint
\* g = c + maxLength, with b the nearest terminator searching backward from
\* g: the cut is placed just after b if g - b <= maxLength / 2, and exactly
\* at g otherwise.
C23_CutAfterBreakWithinHalf ==
    \A k \in NonFinalCuts :
        LET g == cuts[k][1] + ckMax
            b == BackwardBreak(g)
        IN  cuts[k][2] = IF b >= 0 /\ 2 * (g - b) <= ckMax THEN b + 1 ELSE g

\* C23 amended: the cut is placed just after b if b is less than half of
\* maxLength behind g (g - b < maxLength / 2), and exactly at g otherwise,
\* a terminator exactly maxLength / 2 behind g included.
C23_CutAfterBreakCloserThanHalf ==
    \A k \in NonFinalCuts :
        LET g == cuts[k][1] + ckMax
            b == BackwardBreak(g)
        IN  cuts[k][2] = IF b >= 0 /\ 2 * (g - b) < ckMax THEN b + 1 ELSE g

\* C23 witness: chunkText has returned after a cut placed after a terminator
\* that lies two characters before the greedy end.
C23_Witness ==
    /\ ckPc = "done"
    /\ \E k \in NonFinalCuts :
          /\ BackwardBreak(cuts[k][1] + ckMax) = cuts[k][1] + ckMax - 2
          /\ cuts[k][2] = cuts[k][1] + ckMax - 1

\* every iteration moved the cursor forward, by more than half of maxLength
CutsAdvance ==
    /\ \A k \in 1..Len(cuts) : 2 * (cuts[k][2] - cuts[k][1]) > ckMax
    /\ \A k \in 1..Len(cuts) :
          cuts[k][1] = (IF k = 1 THEN 0 ELSE cuts[k - 1][2])
    /\ ckPc = "loop" => currentIndex = (IF cuts = <<>> THEN 0 ELSE cuts[Len(cuts)][2])

\* C30: chunkText terminates: every iteration increases the cursor, by more
\* than half of maxLength in every non-final iteration, until the cursor
\* reaches or passes the end of the text and chunkText returns.
C30_CursorAdvancesUntilReturn ==
    /\ []CutsAdvance
    /\ [](ckPc = "done" /\ Len(ckText) > ckMax =>
            cuts # <<>> /\ cuts[Len(cuts)][2] >= Len(ckText))
    /\ <>(ckPc = "done")

\* C30 witness: chunkText has returned after two iterations, the first of
\* them cut after a terminator before the greedy end.
C30_Witness ==
    /\ ckPc = "done"
    /\ Len(cuts) = 2
    /\ \E k \in NonFinalCuts : cuts[k][2] < cuts[k][1] + ckMax

(***************************************************************************)
(* Claims about generateArticleId.                                         *)
(***************************************************************************)
\* C17: for articles whose link is a non-empty string, a link made only of
\* whitespace included, the id depends only on the link: two entries with
\* the same non-empty link get the same id whatever their titles and sources
\* are, and get it again on every computation.
C17_NonEmptyLinkDecidesId ==
    (idPc \in {"done", "again"} /\ Len(idItems[1].link) > 0
        /\ idItems[1].link = idItems[2].link) => idOf[1] = idOf[2]

\* C17 amended: for articles whose link has at least one non-whitespace
\* character the id depends only on the link; the id of an entry whose link
\* is empty or made only of whitespace is derived from title and source.
C17_NonBlankLinkDecidesId ==
    idPc \in {"done", "again"} =>
        /\ (Len(trim(idItems[1].link)) > 0 /\ idItems[1].link = idItems[2].link)
              => idOf[1] = idOf[2]
        /\ \A k \in 1..2 :
              idOf[k] = IF Len(trim(idItems[k].link)) > 0
                        THEN Sha1Hex16(idItems[k].link)
                        ELSE Sha1Hex16(idItems[k].title \o idItems[k].source)

\* C17 witness: two entries with the same link " u", different titles and
\* different sources have the same id.
C17_Witness ==
    /\ idPc = "done"
    /\ idItems[1].link = <<" ", "u">>
    /\ idItems[2].link = <<" ", "u">>
    /\ idItems[1].title # idItems[2].title
    /\ idItems[1].source # idItems[2].source
    /\ idOf[1] = idOf[2]

(***************************************************************************)
(* Claims about cleanHtmlContent.                                          *)
(***************************************************************************)
\* C18: the summary of every normalized Article has at most 500 characters,
\* the ellipsis added on truncation included.
C18_SummaryAtMostLimit ==
    sumPc \in {"done", "again"} => Len(summary) <= SummaryLimit

(***************************************************************************)
(* Claims about getMP3Duration.                                            *)
(***************************************************************************)
\* C19: every value getMP3Duration resolves to is a non-negative integer
\* number of seconds, on the probe path and on the size path.
C19_ResolvesToNaturalSeconds ==
    durSettled = "resolved" =>
        /\ ~isNaN(durValue)
        /\ durValue.num >= 0
        /\ durValue.num % durValue.den = 0

\* the probe was unavailable or failed: nothing could be spawned, the exit
\* code was not 0, or the output held no parseable duration
ProbeFailed ==
    \/ durPc \in {"threw", "error", "closedLate"}
    \/ durPc = "closed" /\ (durCode # 0 \/ isNaN(parseFloat(trim(output))))

\* C20: whenever the probe is unavailable or fails, getMP3Duration does not
\* reject: it resolves with round((bytes / 1024) / 320 * 60) seconds, 120
\* for a buffer of 640 KB.
C20_ProbeFailureResolvesWithEstimate ==
    ProbeFailed =>
        /\ durSettled = "resolved"
        /\ durValue = EstimateDuration(durBytes)
        /\ durBytes = 640 * 1024 => durValue = Whole(120)

(***************************************************************************)
(* More claims about synthesizePodcast.                                    *)
(***************************************************************************)
\* C27: every chunk that synthesizePodcast passes to the speech oracle for
\* an accepted (non-blank) script has at least one non-whitespace character.
C27_NoBlankChunkRequested ==
    \A k \in 1..Len(ttsRequests) :
        Len(trim(TextChunks[ttsScript][ttsRequests[k].chunk])) > 0

(***************************************************************************)
(* Claims about dailyRunner.                                               *)
(***************************************************************************)
\* C22: a run that fails is propagated to whoever started it: the process
\* of a failed --test run ends with a non-zero exit code; and when Discord
\* is configured an error notification is sent for every failed run.
C22_FailureGivesNonZeroExit ==
    /\ (rnPc = "exited" /\ "test" \in rnFailed) => rnExit > 0
    /\ (rnFailed # {} /\ rnDiscord) => rnNotified > 0

(***************************************************************************)
(* Claims about the Discord client of the logger.                          *)
(***************************************************************************)
\* C25: across every interleaving of initializeDiscordLogger and
\* getDiscordClient calls at most one Discord client is created and logged
\* in.
C25_AtMostOneClient ==
    Cardinality({k \in 1..Len(dcClients) : dcClients[k].login = "ok"}) <= 1

\* C28: in every interleaving of the initialization calls the
\* interactionCreate handler is attached at most once to the live client.
C28_HandlerAttachedOnce ==
    \A k \in 1..Len(dcClients) : dcClients[k].handlers <= 1

====
